---------------------------- MODULE Spec2Model ----------------------------
(***************************************************************************)
(* Model of the crypto-boiler temperature controller:                      *)
(*   valve_control/relay_controller.py      RelayController                *)
(*   valve_control/temperature_regulator.py TemperatureRegulator           *)
(*   valve_control/valve_controller.py      ValveController                *)
(*   valve_control/data_manager_integration.py  mode / cooling listener    *)
(*   data_manager/core_system.py            temperature + settings plane   *)
(*   data_manager/settings_manager.py       settings file writes           *)
(*                                                                         *)
(* Temperatures are integers in hundredths of a degree Celsius, times are  *)
(* integers in seconds.  A relay's last_switch_time and the regulator's    *)
(* last settings check are kept as the time elapsed since them, capped at  *)
(* the interval they are compared with.                                    *)
(***************************************************************************)
EXTENDS Integers, Sequences, FiniteSets, TLC

VARIABLES
    upper,          \* RelayController of the cooling valve (GPIO17)
    lower,          \* RelayController of the heating/return valve (GPIO22)
    regRunning,     \* TemperatureRegulator._running
    regState,       \* TemperatureRegulator.state
    algorithm,      \* TemperatureRegulator._algorithm
    cfg,            \* RegulatorConfig.min_temperature / max_temperature
    sinceCheck,     \* seconds since TemperatureRegulator._last_settings_check
    tickDue,        \* the regulation thread's wait has elapsed
    history,        \* TemperatureRegulator._history, <<age, T>> newest last
    highMin,        \* TemperatureRegulator._high_since_on_min_temp
    lowMax,         \* TemperatureRegulator._low_since_on_max_temp
    ctlRunning,     \* ValveController._is_running
    isManual,       \* data_manager_integration._is_manual_mode
    dmTemp,         \* DataManager current TEMPERATURE value
    tempAge,        \* seconds since the TEMPERATURE entry was written
    pollError,      \* the last poll of the miner ended with status "error"
    provTemp,       \* TemperatureDataProvider._current_temperature
    dmSettings,     \* DataManager current TEMPERATURE_SETTINGS value
    cause,          \* the operation that made the last step
    script,         \* scenario driver: the list of scripted inputs
    pos,            \* scenario driver: number of scripted inputs consumed
    trace,          \* scenario driver: relay states after each scripted second
    file,           \* config/gui_settings.json: the document and how much of
                    \* it is on disk
    oldDoc,         \* the document the file held before the write in progress
    newDoc,         \* the document the write in progress is writing
    wpc,            \* position of the writer inside a save operation
    seen,           \* what the last reader of the settings file got
    setPc,          \* set_temperature_settings: position of each caller
    setLocal,       \* save_current_settings: the entry each caller read
    setRet,         \* set_temperature_settings: last return value per caller
    reloadVal,      \* reload_settings_from_file: the settings it has loaded
    backups,        \* config/backups: file name (its second) -> mtime
    now,            \* wall clock of the settings plane, in seconds
    fileTime,       \* mtime of config/gui_settings.json
    ret,            \* return value of the last SettingsManager / core call
    arg,            \* argument of the last SettingsManager / core call
    dsCurrent,      \* DataManager._current_data of one key
    dsHistory,      \* DataManager._history of that key
    dsLog,          \* every entry committed to that key, in commit order
    dsPc,           \* set_data: 0 outside the call, else the index of the
                    \* subscriber the writer thread will call next
    dsEntry,        \* set_data: the entry each writer thread has built
    dsSeen,         \* entries each subscriber callback was called with
    rc,             \* a RelayController with its statistics
    rcNow,          \* wall clock of the relay controller, in seconds
    rcOp,           \* the last RelayController method called
    rcRet,          \* what that call returned
    alive,          \* the controller process has not exited
    disk,           \* condition of config/gui_settings.json on the disk
    jdoc,           \* config/gui_settings.json with all its members
    dmMode,         \* the operating mode last commanded (MODE)
    dmCooling,      \* the value last written to COOLING_STATE
    bootPc,         \* how far start_valve_control has come
    svPc,           \* concurrent save_* calls: position of each thread
    svReq,          \* concurrent save_* calls: field and value of each call
    svDoc,          \* concurrent save_* calls: the document each call built
    cPc,            \* concurrent mode calls: position of each thread
    cOp,            \* concurrent mode calls: the entry point each thread is in
    cOk             \* concurrent mode calls: the bool the controller returned

vars == <<upper, lower, regRunning, regState, algorithm, cfg, sinceCheck,
          tickDue, history, highMin, lowMax, ctlRunning, isManual, dmTemp,
          tempAge, pollError, provTemp, dmSettings, cause,
          script, pos, trace, file, oldDoc, newDoc, wpc, seen,
          setPc, setLocal, setRet, reloadVal, backups, now, fileTime, ret, arg,
          dsCurrent, dsHistory, dsLog, dsPc, dsEntry, dsSeen,
          rc, rcNow, rcOp, rcRet, alive, disk, jdoc, dmMode,
          dmCooling, bootPc, svPc, svReq, svDoc, cPc, cOp, cOk>>

ctlVars == <<upper, lower, regRunning, regState, algorithm, cfg, sinceCheck,
             tickDue, history, highMin, lowMax, ctlRunning, isManual, dmTemp,
             tempAge, pollError, provTemp, dmSettings, cause>>

scnVars == <<script, pos, trace>>

fileVars == <<file, oldDoc, newDoc, wpc, seen>>

planeVars == <<setPc, setLocal, setRet, reloadVal>>

saveVars == <<backups, now, fileTime, ret, arg>>

storeVars == <<dsCurrent, dsHistory, dsLog, dsPc, dsEntry, dsSeen>>

relayVars == <<rc, rcNow, rcOp, rcRet>>

procVars == <<alive, disk>>

docVars == <<jdoc>>

modeVars == <<dmMode, dmCooling, bootPc>>

raceVars == <<cPc, cOp, cOk>>

concVars == <<svPc, svReq, svDoc, raceVars>>

lateVars == <<procVars, docVars, modeVars, concVars>>

auxVars == <<planeVars, saveVars, storeVars, relayVars, lateVars>>

None == -1

-----------------------------------------------------------------------------
(* Program constants *)

Hysteresis == 10            \* TemperatureConfig.hysteresis = 0.1
MinCycleTime == 1           \* SafetyConfig.min_cycle_time = 1.0
SettingsCheckInterval == 1  \* TemperatureRegulator._settings_check_interval
TemperatureTimeout == 10    \* TemperatureConfig.temperature_timeout = 10.0
Lookahead == 5              \* predictive_lookahead_s
MinRate == 5                \* predictive_min_rate_c_per_s = 0.05
PreOnMargin == 50           \* predictive_pre_on_margin_c = 0.5
PreOffMargin == 50          \* predictive_pre_off_margin_c = 0.5
SlopeWindow == 5            \* predictive_slope_window_s = 5.0
ReverseRate == 2            \* predictive_reverse_rate_c_per_s = 0.02
ReverseMargin == 10         \* predictive_reverse_temp_margin_c = 0.10

-----------------------------------------------------------------------------
(* RelayController *)

\* RelayController.__init__: off, never switched, GPIO initialised
NewRelay == [state |-> FALSE, since |-> None, init |-> TRUE]

\* RelayController.turn_on: the new relay record
TurnOn(r) ==
    IF ~r.init THEN r
    ELSE IF ~r.state THEN [r EXCEPT !.state = TRUE, !.since = 0]
    ELSE r

\* RelayController.turn_off: the new relay record
TurnOff(r) ==
    IF ~r.init THEN r
    ELSE IF r.state THEN [r EXCEPT !.state = FALSE, !.since = 0]
    ELSE r

\* RelayController.turn_on / turn_off: the returned bool
TurnOk(r) == r.init

\* RelayController.toggle
Toggle(r) == IF r.state THEN TurnOff(r) ELSE TurnOn(r)

\* one second passes for a relay: last_switch_time is one second older
RelayAge(r) ==
    IF r.since = None \/ r.since >= MinCycleTime THEN r
    ELSE [r EXCEPT !.since = r.since + 1]


-----------------------------------------------------------------------------
(* TemperatureRegulator: min-cycle guard *)

\* TemperatureRegulator._can_switch_now: the "allowed" component
CanSwitchNow(r) ==
    r.since = None \/ MinCycleTime <= 0 \/ r.since >= MinCycleTime

\* TemperatureRegulator._safe_turn_on: the new relay record
SafeTurnOn(r) == IF CanSwitchNow(r) THEN TurnOn(r) ELSE r

\* TemperatureRegulator._safe_turn_on: the returned bool
SafeTurnOnOk(r) == CanSwitchNow(r) /\ TurnOk(r)

\* TemperatureRegulator._safe_turn_off: the new relay record
SafeTurnOff(r) == IF CanSwitchNow(r) THEN TurnOff(r) ELSE r

\* TemperatureRegulator._safe_turn_off: the returned bool
SafeTurnOffOk(r) == CanSwitchNow(r) /\ TurnOk(r)

-----------------------------------------------------------------------------
(* TemperatureRegulator._regulate_temperature (hysteresis algorithm) *)

\* condition of the HIGH ON branch
HighOnCond(T, maxT) == T >= maxT

\* the HIGH OFF branch without the hysteresis band
HighOffAtMax(T, maxT) == T < maxT

\* condition of the HIGH OFF branch
HighOffCond(T, maxT) == T < maxT - Hysteresis

\* condition of the LOW ON branch
LowOnCond(T, minT) == T < minT

\* condition of the LOW OFF branch
LowOffCond(T, minT) == T > minT + Hysteresis

\* the upper relay after the HIGH part of a hysteresis tick
HysteresisUpper(T, up, c) ==
    IF ~up.state /\ HighOnCond(T, c.max) THEN SafeTurnOn(up)
    ELSE IF up.state /\ HighOffCond(T, c.max) THEN SafeTurnOff(up)
    ELSE up

\* the lower relay after the LOW part of a hysteresis tick
HysteresisLower(T, lo, c) ==
    IF ~lo.state /\ LowOnCond(T, c.min) THEN SafeTurnOn(lo)
    ELSE IF lo.state /\ LowOffCond(T, c.min) THEN SafeTurnOff(lo)
    ELSE lo

\* both relays and the trackers after one hysteresis tick
RegulateHysteresis(T, up, lo, c, hm, lm) ==
    [upper |-> HysteresisUpper(T, up, c),
     lower |-> HysteresisLower(T, lo, c),
     highMin |-> hm, lowMax |-> lm]

-----------------------------------------------------------------------------
(* TemperatureRegulator: temperature history and slope *)

MaxOf(S) == CHOOSE x \in S : \A y \in S : y <= x

\* indices of the samples at least SlopeWindow older than the newest one
OldEnough(h) ==
    {i \in 1..(Len(h) - 1) : h[i].age - h[Len(h)].age >= SlopeWindow}

\* TemperatureRegulator._update_temperature_history.  Only the samples that
\* _compute_temperature_slope can still select are kept: a sample older than
\* the newest one outside the slope window is dropped, and so is a sample
\* that is neither the first one nor the last one of its second.
AppendHistory(h, T) ==
    LET new == [age |-> 0, T |-> T]
        h1 == IF Len(h) >= 2 /\ h[Len(h)].age = 0
              THEN [h EXCEPT ![Len(h)] = new]
              ELSE Append(h, new)
        first == IF OldEnough(h1) = {} THEN 1 ELSE MaxOf(OldEnough(h1))
    IN SubSeq(h1, first, Len(h1))

\* one second passes for the history
HistoryAge(h) == [i \in 1..Len(h) |-> [h[i] EXCEPT !.age = h[i].age + 1]]

\* TemperatureRegulator._compute_temperature_slope: the slope as the pair
\* dT (hundredths of a degree) over dt (seconds); ok is FALSE for None.
\* Two samples of the same second are an instant apart (dt = 0 stands for
\* an arbitrarily small positive dt).
ComputeSlope(h) ==
    IF Len(h) < 2 THEN [ok |-> FALSE, dT |-> 0, dt |-> 0]
    ELSE LET oldest == IF OldEnough(h) = {} THEN 1 ELSE MaxOf(OldEnough(h))
         IN [ok |-> TRUE,
             dT |-> h[Len(h)].T - h[oldest].T,
             dt |-> h[oldest].age - h[Len(h)].age]

\* slope > rate, slope >= rate, slope < -rate, -slope >= rate  (rate > 0)
SlopeGT(s, rate) == s.dT > rate * s.dt
SlopeGE(s, rate) == IF s.dt = 0 THEN s.dT > 0 ELSE s.dT >= rate * s.dt
SlopeLTNeg(s, rate) == s.dT < - rate * s.dt
NegSlopeGE(s, rate) == IF s.dt = 0 THEN s.dT < 0 ELSE - s.dT >= rate * s.dt

\* predicted = temperature + slope * lookahead, compared with a threshold
PredictedGE(T, s, thr) ==
    IF s.dt = 0 THEN s.dT > 0 \/ (s.dT = 0 /\ T >= thr)
    ELSE T * s.dt + s.dT * Lookahead >= thr * s.dt
PredictedLE(T, s, thr) ==
    IF s.dt = 0 THEN s.dT < 0 \/ (s.dT = 0 /\ T <= thr)
    ELSE T * s.dt + s.dT * Lookahead <= thr * s.dt


-----------------------------------------------------------------------------
(* TemperatureRegulator._regulate_temperature_predictive *)

\* should_high_on without the look-ahead term
ShouldHighOnBasic(T, high, c, s) == ~high /\ T >= c.max

\* should_high_on as decided before the decisions are applied
ShouldHighOn(T, high, c, s) ==
    \/ ~high /\ T >= c.max
    \/ s.ok /\ ~high /\ SlopeGT(s, MinRate)
            /\ PredictedGE(T, s, c.max - PreOnMargin)

\* should_high_off as decided before the decisions are applied
ShouldHighOff(T, high, c, s, hm) ==
    \/ high /\ T < c.max - Hysteresis
    \/ s.ok /\ high /\ SlopeGE(s, ReverseRate)
            /\ hm # None /\ T >= hm + ReverseMargin
            /\ T <= c.max - PreOffMargin

\* should_low_on as decided before the decisions are applied
ShouldLowOn(T, low, c, s) ==
    \/ ~low /\ T < c.min
    \/ s.ok /\ ~low /\ SlopeLTNeg(s, MinRate)
            /\ PredictedLE(T, s, c.min + PreOnMargin)

\* should_low_off as decided before the decisions are applied
ShouldLowOff(T, low, c, s, lm) ==
    \/ low /\ T > c.min + Hysteresis
    \/ s.ok /\ low /\ NegSlopeGE(s, ReverseRate)
            /\ lm # None /\ T <= lm - ReverseMargin

\* "apply the decisions for the upper threshold": relays and tracker after it
PredictiveUpper(T, up, lo, c, s, hm) ==
    LET high == up.state
        low == lo.state
    IN IF ShouldHighOn(T, high, c, s) /\ ~high
       THEN LET lo1 == IF low THEN SafeTurnOff(lo) ELSE lo
                blocked == low /\ ~SafeTurnOffOk(lo) /\ lo1.state
            IN IF blocked
               THEN [upper |-> up, lower |-> lo1, highMin |-> hm]
               ELSE [upper |-> SafeTurnOn(up), lower |-> lo1,
                     highMin |-> IF SafeTurnOnOk(up) THEN T ELSE hm]
       ELSE IF ShouldHighOff(T, high, c, s, hm) /\ high
       THEN [upper |-> SafeTurnOff(up), lower |-> lo, highMin |-> None]
       ELSE [upper |-> up, lower |-> lo, highMin |-> hm]

\* "apply the decisions for the lower threshold"; high is the value of
\* high_active read at the start of the tick, up and lo are the relays as
\* the upper part left them
PredictiveLower(T, high, up, lo, c, s, lm) ==
    LET low == lo.state
    IN IF ShouldLowOn(T, low, c, s) /\ ~low
       THEN LET up1 == IF high THEN SafeTurnOff(up) ELSE up
                blocked == high /\ ~SafeTurnOffOk(up) /\ up1.state
            IN IF blocked
               THEN [upper |-> up1, lower |-> lo, lowMax |-> lm]
               ELSE [upper |-> up1, lower |-> SafeTurnOn(lo),
                     lowMax |-> IF SafeTurnOnOk(lo) THEN T ELSE lm]
       ELSE IF ShouldLowOff(T, low, c, s, lm) /\ low
       THEN [upper |-> up, lower |-> SafeTurnOff(lo), lowMax |-> None]
       ELSE [upper |-> up, lower |-> lo, lowMax |-> lm]

\* both relays and the trackers after one predictive tick; h is the history
\* with the current reading already appended
RegulatePredictive(T, up, lo, c, hm, lm, h) ==
    LET s == ComputeSlope(h)
        a == PredictiveUpper(T, up, lo, c, s, hm)
        b == PredictiveLower(T, up.state, a.upper, a.lower, c, s, lm)
    IN [upper |-> b.upper, lower |-> b.lower,
        highMin |-> a.highMin, lowMax |-> b.lowMax]


-----------------------------------------------------------------------------
(* Bounds of the model *)

\* readings the miner can report (hundredths of a degree): below every
\* minimum and above every maximum of SettingsChoices
Temps == {4400, 5600}

\* the readings of the automatic-regulation specification: one more reading,
\* inside the band of the first setpoint pair
BandTemps == Temps \cup {5000}

\* setpoint pairs <<min, max>> the operator can choose
SettingsChoices == {<<4500, 5500>>, <<4600, 4800>>}

\* Spec follows the regulator until its first stored sample is this old
\* (seconds)
MaxRunTime == 2

\* the scripted scenarios let a stored sample grow this old (seconds); with
\* one tick per second no sample is kept longer
MaxSampleAge == 6

\* number of pieces in which json.dump hands a document to the file
DocLen == 2

-----------------------------------------------------------------------------
(* Temperature and settings plane, regulation loop, time *)

\* a setpoint that is float('nan'): every comparison with it is false and
\* every difference with it is nan again
NaN == -999999

FLt(a, b) == a # NaN /\ b # NaN /\ a < b

FGt(a, b) == a # NaN /\ b # NaN /\ a > b

FGe(a, b) == a # NaN /\ b # NaN /\ a >= b

FSub(a, b) == IF a = NaN \/ b = NaN THEN NaN ELSE a - b

\* the dict set_temperature_settings publishes as TEMPERATURE_SETTINGS
PublishedSettings(mn, mx) ==
    [min |-> mn, max |-> mx, hysteresis |-> FSub(mx, mn)]

\* the hysteresis the regulation rules work with: the hysteresis of
\* TemperatureConfig, which nothing assigns after construction
WorkingHysteresis(c) == Hysteresis

\* TemperatureRegulator._check_and_update_temperature_settings: the new
\* working thresholds (TEMPERATURE_SETTINGS is always present once the
\* controller runs: start_valve_control refuses to start without it)
CheckSettings(c, since, dm) ==
    IF since = None \/ since >= SettingsCheckInterval
    THEN [min |-> dm.min, max |-> dm.max]
    ELSE c

\* TEMPERATURE is stale: no successful poll for more than 10 s, or the last
\* poll ended in an error
Stale == dmTemp = None \/ tempAge > TemperatureTimeout \/ pollError

\* TemperatureMonitor poll succeeded and CoreSystem._temperature_sync_loop
\* published the liquid temperature
PollSuccess(T) ==
    /\ dmTemp' = T
    /\ tempAge' = 0
    /\ pollError' = FALSE
    /\ cause' = "poll"
    /\ UNCHANGED <<upper, lower, regRunning, regState, algorithm, cfg,
                   sinceCheck, tickDue, history, highMin, lowMax, ctlRunning,
                   isManual, provTemp, dmSettings>>

\* the poll failed: status "error", liquid_temperature None, nothing published
PollFail ==
    /\ ~pollError
    /\ pollError' = TRUE
    /\ cause' = "poll"
    /\ UNCHANGED <<upper, lower, regRunning, regState, algorithm, cfg,
                   sinceCheck, tickDue, history, highMin, lowMax, ctlRunning,
                   isManual, dmTemp, tempAge, provTemp, dmSettings>>

\* TemperatureDataProvider._update_loop: cache the DataManager value
ProviderUpdate ==
    /\ dmTemp # None
    /\ provTemp # dmTemp
    /\ provTemp' = dmTemp
    /\ cause' = "provider"
    /\ UNCHANGED <<upper, lower, regRunning, regState, algorithm, cfg,
                   sinceCheck, tickDue, history, highMin, lowMax, ctlRunning,
                   isManual, dmTemp, tempAge, pollError, dmSettings>>

\* core_system.set_temperature_settings (validated setpoints)
SetTemperatureSettings(mn, mx) ==
    /\ dmSettings # PublishedSettings(mn, mx)
    /\ dmSettings' = PublishedSettings(mn, mx)
    /\ cause' = "settings"
    /\ UNCHANGED <<upper, lower, regRunning, regState, algorithm, cfg,
                   sinceCheck, tickDue, history, highMin, lowMax, ctlRunning,
                   isManual, dmTemp, tempAge, pollError, provTemp>>

\* one iteration of TemperatureRegulator._regulation_loop
Tick ==
    /\ regRunning
    /\ tickDue
    /\ LET doCheck == sinceCheck = None \/ sinceCheck >= SettingsCheckInterval
           c == CheckSettings(cfg, sinceCheck, dmSettings)
           T == provTemp
           h == AppendHistory(history, T)
           r == IF algorithm = "predictive"
                THEN RegulatePredictive(T, upper, lower, c, highMin, lowMax, h)
                ELSE RegulateHysteresis(T, upper, lower, c, highMin, lowMax)
       IN /\ cfg' = c
          /\ sinceCheck' = IF doCheck THEN 0 ELSE sinceCheck
          /\ IF T = None
             THEN /\ tickDue' = TRUE
                  /\ UNCHANGED <<upper, lower, history, highMin, lowMax>>
             ELSE /\ tickDue' = FALSE
                  /\ history' = h
                  /\ upper' = r.upper
                  /\ lower' = r.lower
                  /\ highMin' = r.highMin
                  /\ lowMax' = r.lowMax
    /\ cause' = "tick"
    /\ UNCHANGED <<regRunning, regState, algorithm, ctlRunning, isManual,
                   dmTemp, tempAge, pollError, provTemp, dmSettings>>

\* one second passes; a due tick of a running regulator runs first, and no
\* stored sample grows older than maxAge
AdvanceTime(maxAge) ==
    /\ ~(regRunning /\ tickDue /\ provTemp # None)
    /\ \A i \in 1..Len(history) : history[i].age < maxAge
    /\ upper' = RelayAge(upper)
    /\ lower' = RelayAge(lower)
    /\ history' = HistoryAge(history)
    /\ sinceCheck' = IF sinceCheck = None \/ sinceCheck >= SettingsCheckInterval
                     THEN sinceCheck ELSE sinceCheck + 1
    /\ tempAge' = IF dmTemp = None \/ tempAge > TemperatureTimeout
                  THEN tempAge ELSE tempAge + 1
    /\ tickDue' = regRunning
    /\ cause' = "time"
    /\ UNCHANGED <<regRunning, regState, algorithm, cfg, highMin, lowMax,
                   ctlRunning, isManual, dmTemp, pollError, provTemp,
                   dmSettings>>


-----------------------------------------------------------------------------
(* ValveController and the mode / cooling entry points.  They are written  *)
(* as functions of the controller state k so that one entry point can call *)
(* another.                                                                *)

CtlState ==
    [upper |-> upper, lower |-> lower, regRunning |-> regRunning,
     regState |-> regState, algorithm |-> algorithm, tickDue |-> tickDue,
     isManual |-> isManual, ctlRunning |-> ctlRunning]

\* a stop that leaves the relays as they are
RegulatorStopRelaysKept(k) ==
    IF ~k.regRunning THEN k
    ELSE [k EXCEPT !.regRunning = FALSE,
                   !.tickDue = FALSE,
                   !.regState = "stopped"]

\* TemperatureRegulator.stop: the loop thread is joined (an iteration in
\* progress ends first), then both relays are switched off directly
RegulatorStop(k) ==
    IF ~k.regRunning THEN k
    ELSE [k EXCEPT !.regRunning = FALSE,
                   !.tickDue = FALSE,
                   !.upper = TurnOff(k.upper),
                   !.lower = TurnOff(k.lower),
                   !.regState = "stopped"]

\* TemperatureRegulator.start: the returned bool
RegulatorStartOk(k) == k.regRunning \/ (k.upper.init /\ k.lower.init)

\* TemperatureRegulator.start: the loop thread begins with an iteration
RegulatorStart(k) ==
    IF k.regRunning \/ ~RegulatorStartOk(k) THEN k
    ELSE [k EXCEPT !.regRunning = TRUE, !.tickDue = TRUE,
                   !.regState = "running"]

\* resume_automatic_control that never passes the algorithm on
SetAlgorithmKept(a, alg) == a

\* TemperatureRegulator.set_algorithm; "none" is an absent argument
SetAlgorithm(a, alg) ==
    IF alg = "none" THEN a
    ELSE IF alg = "predictive" THEN "predictive" ELSE "hysteresis"

\* ValveController.manual_cooling_on
ManualCoolingOn(k) ==
    IF ~k.ctlRunning THEN k
    ELSE LET k1 == RegulatorStop(k) IN [k1 EXCEPT !.upper = TurnOn(k1.upper)]

\* manual_cooling_off that leaves the regulator running
ManualCoolingOffKeepRegulator(k) ==
    IF ~k.ctlRunning THEN k ELSE [k EXCEPT !.upper = TurnOff(k.upper)]

\* ValveController.manual_cooling_off
ManualCoolingOff(k) ==
    IF ~k.ctlRunning THEN k
    ELSE LET k1 == RegulatorStop(k) IN [k1 EXCEPT !.upper = TurnOff(k1.upper)]

\* ValveController.manual_cooling_on / manual_cooling_off: the returned bool
ManualCoolingOk(k) == k.ctlRunning /\ TurnOk(k.upper)

\* ValveController.resume_automatic_control
ResumeAutomaticControl(k, alg) ==
    IF ~k.ctlRunning THEN k
    ELSE RegulatorStart([k EXCEPT !.algorithm = SetAlgorithm(k.algorithm, alg)])

\* set_manual_mode that only switches the upper relay off
SetManualModeUpperOnly(k) ==
    [k EXCEPT !.upper = TurnOff(k.upper), !.isManual = TRUE]

\* data_manager_integration.set_manual_mode
SetManualModeOp(k) ==
    LET k1 == ManualCoolingOff(k)
    IN [k1 EXCEPT !.isManual = IF ManualCoolingOk(k) THEN TRUE ELSE k.isManual]

\* data_manager_integration.set_auto_mode
SetAutoModeOp(k, alg) ==
    LET k1 == ResumeAutomaticControl(k, alg)
        ok == k.ctlRunning /\ RegulatorStartOk(k)
    IN [k1 EXCEPT !.isManual = IF ok THEN FALSE ELSE k.isManual]

\* data_manager_integration.set_manual_cooling, as on_cooling_change calls it
SetManualCoolingOp(k, on) ==
    IF ~k.isManual THEN k
    ELSE IF on THEN ManualCoolingOn(k) ELSE ManualCoolingOff(k)

\* toggle_manual_cooling without the test of the manual-mode flag
ToggleManualCoolingUnguarded(k) == [k EXCEPT !.upper = Toggle(k.upper)]

\* data_manager_integration.toggle_manual_cooling
ToggleManualCoolingOp(k) ==
    IF ~k.isManual THEN k ELSE [k EXCEPT !.upper = Toggle(k.upper)]

\* RelayController.cleanup on the target (RPi.GPIO available)
Cleanup(r) == [r EXCEPT !.init = FALSE]

\* ValveController.stop
ControllerStopOp(k) ==
    IF ~k.ctlRunning THEN k
    ELSE LET k1 == RegulatorStop(k)
         IN [k1 EXCEPT !.upper = Cleanup(k1.upper),
                       !.lower = Cleanup(k1.lower),
                       !.ctlRunning = FALSE]

\* the controller variables take the values of k
Apply(k) ==
    /\ upper' = k.upper
    /\ lower' = k.lower
    /\ regRunning' = k.regRunning
    /\ regState' = k.regState
    /\ algorithm' = k.algorithm
    /\ tickDue' = k.tickDue
    /\ isManual' = k.isManual
    /\ ctlRunning' = k.ctlRunning

\* on_mode_change with MODE = manual
SetManualMode ==
    /\ ctlRunning
    /\ Apply(SetManualModeOp(CtlState))
    /\ cause' = "mode"
    /\ UNCHANGED <<cfg, sinceCheck, history, highMin, lowMax, dmTemp, tempAge,
                   pollError, provTemp, dmSettings>>

\* on_mode_change with MODE = auto (hysteresis) or predictive
SetAutoMode(alg) ==
    /\ ctlRunning
    /\ Apply(SetAutoModeOp(CtlState, alg))
    /\ cause' = "mode"
    /\ UNCHANGED <<cfg, sinceCheck, history, highMin, lowMax, dmTemp, tempAge,
                   pollError, provTemp, dmSettings>>

\* on_cooling_change with COOLING_STATE = on
SetManualCooling(on) ==
    /\ ctlRunning
    /\ Apply(SetManualCoolingOp(CtlState, on))
    /\ cause' = "cooling"
    /\ UNCHANGED <<cfg, sinceCheck, history, highMin, lowMax, dmTemp, tempAge,
                   pollError, provTemp, dmSettings>>

\* the GUI cooling button: toggle_manual_cooling
ToggleManualCooling ==
    /\ ctlRunning
    /\ Apply(ToggleManualCoolingOp(CtlState))
    /\ cause' = "cooling"
    /\ UNCHANGED <<cfg, sinceCheck, history, highMin, lowMax, dmTemp, tempAge,
                   pollError, provTemp, dmSettings>>

\* SettingsPage.save_settings: new setpoints, then the selected mode is
\* saved and applied again (manual selects set_manual_mode, everything else
\* set_auto_mode without an algorithm)
GuiSaveSettings(mn, mx, manualSelected) ==
    /\ ctlRunning
    /\ dmSettings' = IF mn < mx THEN PublishedSettings(mn, mx) ELSE dmSettings
    /\ Apply(IF manualSelected THEN SetManualModeOp(CtlState)
             ELSE SetAutoModeOp(CtlState, "none"))
    /\ cause' = "gui_save"
    /\ UNCHANGED <<cfg, sinceCheck, history, highMin, lowMax, dmTemp, tempAge,
                   pollError, provTemp>>

\* ValveController.stop (explicit, or the signal handler)
ControllerStop ==
    /\ ctlRunning
    /\ Apply(ControllerStopOp(CtlState))
    /\ cause' = "stop"
    /\ UNCHANGED <<cfg, sinceCheck, history, highMin, lowMax, dmTemp, tempAge,
                   pollError, provTemp, dmSettings>>


-----------------------------------------------------------------------------
(* The running controller: start_all_modules.start_valve_control has built *)
(* the ValveController, synchronised the thresholds with the DataManager   *)
(* and started the regulator; no reading has arrived yet.                  *)

NoScenario == [name |-> "none", mode |-> "auto", steps |-> <<>>]

IdleScenario == script = NoScenario /\ pos = <<0, "idle">> /\ trace = <<>>

\* settings file documents: the setpoints, the mode, the cooling flag
Docs ==
    [temps : SettingsChoices, mode : {"auto", "manual"}, cooling : BOOLEAN]

NoDoc == [temps |-> <<0, 0>>, mode |-> "none", cooling |-> FALSE]

IdleFile ==
    /\ file = [doc |-> NoDoc, len |-> DocLen]
    /\ oldDoc = NoDoc /\ newDoc = NoDoc
    /\ wpc = "idle" /\ seen = "none"

\* threads that call set_temperature_settings, threads that call set_data
Setters == {1, 2}

Writers == {1, 2}

\* callbacks subscribed to the key
NumSubscribers == 2

Subscribers == 1..NumSubscribers

IdlePlane ==
    /\ setPc = [t \in Setters |-> "idle"]
    /\ setLocal = [t \in Setters |-> <<>>]
    /\ setRet = [t \in Setters |-> FALSE]
    /\ reloadVal = <<>>

IdleSave ==
    backups = {} /\ now = 0 /\ fileTime = 0 /\ ret = FALSE /\ arg = <<>>

IdleStore ==
    /\ dsCurrent = None
    /\ dsHistory = <<>>
    /\ dsLog = <<>>
    /\ dsPc = [w \in Writers |-> 0]
    /\ dsEntry = [w \in Writers |-> None]
    /\ dsSeen = [s \in Subscribers |-> <<>>]

\* RelayController.__init__ followed by a successful _init_gpio
NewRelayController ==
    [init |-> TRUE, state |-> FALSE, last |-> None, count |-> 0,
     lastOn |-> None, total |-> 0]

IdleRelay ==
    rc = NewRelayController /\ rcNow = 0 /\ rcOp = "init" /\ rcRet = FALSE

\* the process runs and the settings file is a readable, writable document
IdleProc == alive = TRUE /\ disk = "ok"

\* the document save_settings writes for the default setpoints
IdleDoc ==
    jdoc = [stamp |-> 0, temps |-> <<4500, 5500>>, createdBy |-> "core_system",
            source |-> "unknown", mode |-> "absent", ip |-> "absent",
            cooling |-> "absent", extra |-> FALSE]

IdleMode == dmMode = "auto" /\ dmCooling = FALSE /\ bootPc = "applied"

IdleRace ==
    /\ cPc = [t \in Setters |-> "idle"]
    /\ cOp = [t \in Setters |-> "none"]
    /\ cOk = [t \in Setters |-> FALSE]

IdleConc ==
    /\ svPc = [t \in Writers |-> "idle"]
    /\ svReq = [t \in Writers |-> <<"none", FALSE>>]
    /\ svDoc = [t \in Writers |-> NoDoc]
    /\ IdleRace

IdleLate == IdleProc /\ IdleDoc /\ IdleMode /\ IdleConc

IdleAux == IdlePlane /\ IdleSave /\ IdleStore /\ IdleRelay /\ IdleLate

InitController(alg) ==
    /\ upper = NewRelay
    /\ lower = NewRelay
    /\ regRunning = TRUE
    /\ regState = "running"
    /\ algorithm = alg
    /\ sinceCheck = None
    /\ tickDue = TRUE
    /\ history = <<>>
    /\ highMin = None
    /\ lowMax = None
    /\ ctlRunning = TRUE
    /\ isManual = FALSE
    /\ dmTemp = None
    /\ tempAge = 0
    /\ pollError = FALSE
    /\ provTemp = None
    /\ cause = "init"

\* the thresholds the regulator starts with are the published ones
InitSettings(mn, mx) ==
    /\ cfg = [min |-> mn, max |-> mx]
    /\ dmSettings = PublishedSettings(mn, mx)

Init ==
    /\ InitController("hysteresis")
    /\ \E sc \in SettingsChoices : InitSettings(sc[1], sc[2])
    /\ IdleScenario
    /\ IdleFile
    /\ IdleAux

\* The miner answers every poll: a second passes only after a reading of
\* this second has been published.
Healthy == dmTemp = None \/ tempAge = 0

\* Mode and cooling commands against the hysteresis regulator.
Next ==
    \/ (\E T \in Temps : PollSuccess(T)) /\ UNCHANGED <<scnVars, fileVars, auxVars>>
    \/ ProviderUpdate /\ UNCHANGED <<scnVars, fileVars, auxVars>>
    \/ (\E sc \in SettingsChoices : SetTemperatureSettings(sc[1], sc[2]))
          /\ UNCHANGED <<scnVars, fileVars, auxVars>>
    \/ Tick /\ UNCHANGED <<scnVars, fileVars, auxVars>>
    \/ Healthy /\ AdvanceTime(MaxRunTime) /\ UNCHANGED <<scnVars, fileVars, auxVars>>
    \/ SetManualMode /\ UNCHANGED <<scnVars, fileVars, auxVars>>
    \/ SetAutoMode("hysteresis") /\ UNCHANGED <<scnVars, fileVars, auxVars>>
    \/ (\E on \in BOOLEAN : SetManualCooling(on))
          /\ UNCHANGED <<scnVars, fileVars, auxVars>>
    \/ ToggleManualCooling /\ UNCHANGED <<scnVars, fileVars, auxVars>>
    \/ (\E sc \in SettingsChoices, m \in BOOLEAN :
            GuiSaveSettings(sc[1], sc[2], m))
          /\ UNCHANGED <<scnVars, fileVars, auxVars>>
    \/ ControllerStop /\ UNCHANGED <<scnVars, fileVars, auxVars>>

Spec == Init /\ [][Next]_vars

-----------------------------------------------------------------------------
(* Automatic regulation alone: the operator leaves the mode alone, the     *)
(* miner may stop answering, the setpoints may change.                     *)

AutoInit ==
    /\ InitController("hysteresis")
    /\ \E sc \in SettingsChoices : InitSettings(sc[1], sc[2])
    /\ IdleScenario
    /\ IdleFile
    /\ IdleAux

AutoNext ==
    \/ (\E T \in BandTemps : PollSuccess(T))
          /\ UNCHANGED <<scnVars, fileVars, auxVars>>
    \/ PollFail /\ UNCHANGED <<scnVars, fileVars, auxVars>>
    \/ ProviderUpdate /\ UNCHANGED <<scnVars, fileVars, auxVars>>
    \/ (\E sc \in SettingsChoices : SetTemperatureSettings(sc[1], sc[2]))
          /\ UNCHANGED <<scnVars, fileVars, auxVars>>
    \/ Tick /\ UNCHANGED <<scnVars, fileVars, auxVars>>
    \/ AdvanceTime(MaxRunTime) /\ UNCHANGED <<scnVars, fileVars, auxVars>>

AutoSpec == AutoInit /\ [][AutoNext]_vars

-----------------------------------------------------------------------------
(* The data path stays up long enough for a reading to outlive the         *)
(* temperature timeout.                                                    *)

StaleNext ==
    \/ (\E T \in Temps : PollSuccess(T)) /\ UNCHANGED <<scnVars, fileVars, auxVars>>
    \/ PollFail /\ UNCHANGED <<scnVars, fileVars, auxVars>>
    \/ ProviderUpdate /\ UNCHANGED <<scnVars, fileVars, auxVars>>
    \/ (\E sc \in SettingsChoices : SetTemperatureSettings(sc[1], sc[2]))
          /\ UNCHANGED <<scnVars, fileVars, auxVars>>
    \/ Tick /\ UNCHANGED <<scnVars, fileVars, auxVars>>
    \/ AdvanceTime(MaxSampleAge) /\ UNCHANGED <<scnVars, fileVars, auxVars>>

StaleSpec == Init /\ [][StaleNext]_vars

-----------------------------------------------------------------------------
(* Scripted runs: the readings of a script are fed one per second through  *)
(* the poll, the provider and the regulation loop.                         *)

Reading(T) == [kind |-> "T", T |-> T, on |-> FALSE]

Cooling(on) == [kind |-> "cooling", T |-> None, on |-> on]

S1Readings ==
    <<Reading(5480), Reading(5500), Reading(5530), Reading(5490),
      Reading(5480), Reading(4520), Reading(4500), Reading(4490),
      Reading(4480)>>

S2Readings == <<Reading(5300), Reading(5330), Reading(5360), Reading(5390)>>

S3Steps ==
    <<Reading(6000), Reading(6000), Reading(6000), Reading(6000),
      Reading(6000), Cooling(TRUE), Reading(6000)>>

\* the scenarios, and the readings of the first two under the other algorithm
Scenarios ==
    { [name |-> "S1", mode |-> "auto", steps |-> S1Readings],
      [name |-> "S2", mode |-> "predictive", steps |-> S2Readings],
      [name |-> "S3", mode |-> "manual", steps |-> S3Steps],
      [name |-> "S1p", mode |-> "predictive", steps |-> S1Readings],
      [name |-> "S2h", mode |-> "auto", steps |-> S2Readings] }

ScnInit ==
    /\ InitController("hysteresis")
    /\ InitSettings(4500, 5500)
    /\ script \in Scenarios
    /\ pos = <<0, "start">>
    /\ trace = <<>>
    /\ IdleFile
    /\ IdleAux

ScnStep == script.steps[pos[1]]

\* the phase after the reading has reached the provider
AfterCache == IF regRunning THEN "tick" ELSE "wait"

\* the MODE of the scenario reaches on_mode_change
ScnStart ==
    /\ pos = <<0, "start">>
    /\ IF script.mode = "manual" THEN SetManualMode
       ELSE IF script.mode = "predictive" THEN SetAutoMode("predictive")
       ELSE SetAutoMode("hysteresis")
    /\ pos' = <<1, "feed">>
    /\ UNCHANGED <<script, trace, fileVars, auxVars>>

\* the next reading of the script is polled and published
ScnFeed ==
    /\ pos[2] = "feed" /\ pos[1] <= Len(script.steps)
    /\ ScnStep.kind = "T"
    /\ PollSuccess(ScnStep.T)
    /\ pos' = <<pos[1], IF provTemp = ScnStep.T THEN AfterCache ELSE "cache">>
    /\ UNCHANGED <<script, trace, fileVars, auxVars>>

ScnCache ==
    /\ pos[2] = "cache"
    /\ ProviderUpdate
    /\ pos' = <<pos[1], AfterCache>>
    /\ UNCHANGED <<script, trace, fileVars, auxVars>>

ScnTick ==
    /\ pos[2] = "tick"
    /\ Tick
    /\ pos' = <<pos[1], "wait">>
    /\ UNCHANGED <<script, trace, fileVars, auxVars>>

\* the second ends: the relay states after this tick are recorded
ScnWait ==
    /\ pos[2] = "wait"
    /\ AdvanceTime(MaxSampleAge)
    /\ trace' = Append(trace, <<upper.state, lower.state>>)
    /\ pos' = <<pos[1] + 1, "feed">>
    /\ UNCHANGED <<script, fileVars, auxVars>>

\* the next step of the script is a COOLING_STATE change
ScnCooling ==
    /\ pos[2] = "feed" /\ pos[1] <= Len(script.steps)
    /\ ScnStep.kind = "cooling"
    /\ SetManualCooling(ScnStep.on)
    /\ pos' = <<pos[1] + 1, "feed">>
    /\ UNCHANGED <<script, trace, fileVars, auxVars>>

ScnNext ==
    \/ ScnStart
    \/ ScnFeed
    \/ ScnCache
    \/ ScnTick
    \/ ScnWait
    \/ ScnCooling

ScenarioSpec == ScnInit /\ [][ScnNext]_vars

-----------------------------------------------------------------------------
(* SettingsManager: writes of config/gui_settings.json.  Every save_*      *)
(* method reads the file, builds the new document, opens the file with     *)
(* mode 'w' (which truncates it) and lets json.dump write into it.         *)

Complete(f) == f.len = DocLen

\* what a reader falls back to when json.load fails
DefaultDoc == [temps |-> <<4500, 5500>>, mode |-> "auto", cooling |-> FALSE]

\* "existing data" as the save_* methods load it
ExistingData(f) == IF Complete(f) THEN f.doc ELSE DefaultDoc

\* the document save_settings / save_mode / save_cooling_state will write
SaveData(f, field, value) ==
    IF field = "temps" THEN [ExistingData(f) EXCEPT !.temps = value]
    ELSE IF field = "mode" THEN [ExistingData(f) EXCEPT !.mode = value]
    ELSE [ExistingData(f) EXCEPT !.cooling = value]

\* a save_* call has read the file and built its document
SaveBegin(field, value) ==
    /\ wpc = "idle"
    /\ oldDoc' = file.doc
    /\ newDoc' = SaveData(file, field, value)
    /\ wpc' = "open"
    /\ UNCHANGED <<file, seen>>

\* open(settings_file, 'w'): the file is truncated
SaveOpen ==
    /\ wpc = "open"
    /\ file' = [doc |-> newDoc, len |-> 0]
    /\ wpc' = "write"
    /\ UNCHANGED <<oldDoc, newDoc, seen>>

\* json.dump: the next piece of the document reaches the file; the file is
\* closed after the last one
SaveWrite ==
    /\ wpc = "write"
    /\ file' = [file EXCEPT !.len = file.len + 1]
    /\ wpc' = IF file.len + 1 = DocLen THEN "idle" ELSE "write"
    /\ UNCHANGED <<oldDoc, newDoc, seen>>

\* the process dies inside the save (power loss, kill) and is started again
Crash ==
    /\ wpc \in {"open", "write"}
    /\ wpc' = "idle"
    /\ UNCHANGED <<file, oldDoc, newDoc, seen>>

\* what json.load gets from the file as it is now
ReadResult(f) ==
    IF Complete(f) THEN "document" ELSE IF f.len = 0 THEN "empty" ELSE "partial"

\* another thread reads the file (load_settings, load_mode, ...)
ReadFile ==
    /\ seen' = ReadResult(file)
    /\ seen' # seen
    /\ UNCHANGED <<file, oldDoc, newDoc, wpc>>

FileInit ==
    /\ InitController("hysteresis")
    /\ InitSettings(4500, 5500)
    /\ IdleScenario
    /\ \E d \in Docs :
          /\ file = [doc |-> d, len |-> DocLen]
          /\ oldDoc = d
          /\ newDoc = d
    /\ wpc = "idle"
    /\ seen = "none"
    /\ IdleAux

FileNext ==
    \/ (\E sc \in SettingsChoices : SaveBegin("temps", sc))
          /\ UNCHANGED <<ctlVars, scnVars, auxVars>>
    \/ (\E m \in {"auto", "manual"} : SaveBegin("mode", m))
          /\ UNCHANGED <<ctlVars, scnVars, auxVars>>
    \/ (\E b \in BOOLEAN : SaveBegin("cooling", b))
          /\ UNCHANGED <<ctlVars, scnVars, auxVars>>
    \/ SaveOpen /\ UNCHANGED <<ctlVars, scnVars, auxVars>>
    \/ SaveWrite /\ UNCHANGED <<ctlVars, scnVars, auxVars>>
    \/ Crash /\ UNCHANGED <<ctlVars, scnVars, auxVars>>
    \/ ReadFile /\ UNCHANGED <<ctlVars, scnVars, auxVars>>

FileSpec == FileInit /\ [][FileNext]_vars

-----------------------------------------------------------------------------
(* Settings plane of the core.  set_temperature_settings validates, writes *)
(* the DataManager entry, reads it back in save_current_settings and hands *)
(* what it read to SettingsManager.save_settings; reload_settings_from_file *)
(* loads the file and publishes what it loaded.  Nothing serialises two    *)
(* callers: each of these steps is atomic, the sequence is not.  The       *)
(* settings file exists (the core creates it at boot).                     *)

\* limits of validate_settings, in hundredths of a degree
TempFloor == 0
TempCeiling == 10000
MinSpan == 10
MaxSpan == 3000

\* backups kept by _cleanup_old_backups
MaxBackups == 5

\* SettingsManager.validate_settings on numeric min_temp / max_temp
ValidateSettings(mn, mx) ==
    /\ ~FGe(mn, mx)
    /\ ~(FLt(mn, TempFloor) \/ FGt(mn, TempCeiling))
    /\ ~(FLt(mx, TempFloor) \/ FGt(mx, TempCeiling))
    /\ ~FLt(FSub(mx, mn), MinSpan)
    /\ ~FGt(FSub(mx, mn), MaxSpan)

\* _load_temperature_settings_on_init: the dict published at boot
LoadedSettings(s) ==
    [min |-> s[1], max |-> s[2], hysteresis |-> FSub(s[2], s[1])]

ReloadedFixedHysteresis(s) ==
    [min |-> s[1], max |-> s[2], hysteresis |-> Hysteresis]

\* reload_settings_from_file: the dict it publishes
ReloadedSettings(s) ==
    [min |-> s[1], max |-> s[2], hysteresis |-> FSub(s[2], s[1])]

Newest(b) == CHOOSE x \in b : \A y \in b : x.mtime >= y.mtime

\* the oldest backup by st_mtime
Oldest(b) == CHOOSE x \in b : \A y \in b : x.mtime <= y.mtime

\* _cleanup_old_backups: keep the MaxBackups files with the latest mtime,
\* gui_settings_* and temperature_settings_* counted together
RECURSIVE CleanupOldBackups(_)
CleanupOldBackups(b) ==
    IF Cardinality(b) > MaxBackups
    THEN CleanupOldBackups(b \ {Oldest(b)})
    ELSE b

\* create_backup at second t of a settings file last written at mt:
\* shutil.copy2 to gui_settings_<t>.json (a backup of the same second is
\* overwritten) keeps the file's mtime; then the old backups are pruned
CreateBackup(b, t, mt) ==
    CleanupOldBackups(
        {x \in b : x.legacy \/ x.stamp # t}
           \cup {[legacy |-> FALSE, stamp |-> t, mtime |-> mt]})

\* SettingsManager.save_settings({min_temp, max_temp})
SaveSettingsOp(mn, mx) ==
    IF ValidateSettings(mn, mx)
    THEN /\ backups' = CreateBackup(backups, now, fileTime)
         /\ file' = [doc |-> SaveData(file, "temps", <<mn, mx>>),
                     len |-> DocLen]
         /\ fileTime' = now
         /\ ret' = TRUE
    ELSE /\ ret' = FALSE
         /\ UNCHANGED <<backups, file, fileTime>>

\* the regulator side of the controller, which the settings plane leaves
\* alone
regVars == <<upper, lower, regRunning, regState, algorithm, cfg, sinceCheck,
             tickDue, history, highMin, lowMax, ctlRunning, isManual, dmTemp,
             tempAge, pollError, provTemp>>

planeRest == <<regVars, scnVars, oldDoc, newDoc, wpc, seen, storeVars,
               relayVars, lateVars>>

\* set_temperature_settings, up to and including data_manager.set_data
SetCall(t, mn, mx) ==
    /\ setPc[t] = "idle"
    /\ cause' = "set"
    /\ IF ValidateSettings(mn, mx)
       THEN /\ dmSettings' = PublishedSettings(mn, mx)
            /\ setPc' = [setPc EXCEPT ![t] = "get"]
            /\ UNCHANGED setRet
       ELSE /\ setRet' = [setRet EXCEPT ![t] = FALSE]
            /\ UNCHANGED <<dmSettings, setPc>>
    /\ UNCHANGED <<setLocal, reloadVal, file, saveVars, planeRest>>

\* save_current_settings: data_manager.get_data
SetGet(t) ==
    /\ setPc[t] = "get"
    /\ setLocal' = [setLocal EXCEPT ![t] = <<dmSettings.min, dmSettings.max>>]
    /\ setPc' = [setPc EXCEPT ![t] = "save"]
    /\ cause' = "get"
    /\ UNCHANGED <<dmSettings, setRet, reloadVal, file, saveVars, planeRest>>

\* save_current_settings: save_settings with what was read; its result is
\* what set_temperature_settings returns
SetSave(t) ==
    /\ setPc[t] = "save"
    /\ SaveSettingsOp(setLocal[t][1], setLocal[t][2])
    /\ setRet' = [setRet EXCEPT ![t] = ret']
    /\ setPc' = [setPc EXCEPT ![t] = "idle"]
    /\ setLocal' = [setLocal EXCEPT ![t] = <<>>]
    /\ cause' = "save"
    /\ UNCHANGED <<dmSettings, reloadVal, now, arg, planeRest>>

\* reload_settings_from_file: load_settings (which validates what it read)
ReloadLoad ==
    /\ reloadVal = <<>>
    /\ Complete(file)
    /\ ValidateSettings(file.doc.temps[1], file.doc.temps[2])
    /\ reloadVal' = file.doc.temps
    /\ cause' = "load"
    /\ UNCHANGED <<dmSettings, setPc, setLocal, setRet, file, saveVars,
                   planeRest>>

\* reload_settings_from_file: data_manager.set_data
ReloadPublish ==
    /\ reloadVal # <<>>
    /\ dmSettings' = ReloadedSettings(reloadVal)
    /\ reloadVal' = <<>>
    /\ cause' = "reload"
    /\ UNCHANGED <<setPc, setLocal, setRet, file, saveVars, planeRest>>

\* setpoints handed to set_temperature_settings by its callers
PlaneInputs == SettingsChoices \cup {<<5500, 4500>>}

\* the core has booted: the file holds valid setpoints and
\* _load_temperature_settings_on_init has published them
PlaneInit ==
    /\ InitController("hysteresis")
    /\ IdleScenario
    /\ oldDoc = NoDoc /\ newDoc = NoDoc /\ wpc = "idle" /\ seen = "none"
    /\ IdleAux
    /\ \E sc \in SettingsChoices :
          /\ file = [doc |-> [DefaultDoc EXCEPT !.temps = sc], len |-> DocLen]
          /\ dmSettings = LoadedSettings(sc)
          /\ cfg = [min |-> sc[1], max |-> sc[2]]

PlaneNext ==
    \/ \E t \in Setters, sc \in PlaneInputs : SetCall(t, sc[1], sc[2])
    \/ \E t \in Setters : SetGet(t)
    \/ \E t \in Setters : SetSave(t)
    \/ ReloadLoad
    \/ ReloadPublish

PlaneSpec == PlaneInit /\ [][PlaneNext]_vars

-----------------------------------------------------------------------------
(* SettingsManager.save_mode.  A mode string is the sequence of its        *)
(* characters; a Cyrillic letter is written as '#' and its transliteration *)
(* ("#a" is the small letter a of 'авто', "#A" the capital one).           *)

\* capital letter, small letter: what str.lower() does to the letters used
CaseTable ==
    { <<"A", "a">>, <<"B", "b">>, <<"C", "c">>, <<"D", "d">>, <<"E", "e">>,
      <<"F", "f">>, <<"G", "g">>, <<"H", "h">>, <<"I", "i">>, <<"J", "j">>,
      <<"K", "k">>, <<"L", "l">>, <<"M", "m">>, <<"N", "n">>, <<"O", "o">>,
      <<"P", "p">>, <<"Q", "q">>, <<"R", "r">>, <<"S", "s">>, <<"T", "t">>,
      <<"U", "u">>, <<"V", "v">>, <<"W", "w">>, <<"X", "x">>, <<"Y", "y">>,
      <<"Z", "z">>, <<"#A", "#a">>, <<"#V", "#v">>, <<"#T", "#t">>,
      <<"#O", "#o">>, <<"#M", "#m">>, <<"#I", "#i">>, <<"#CH", "#ch">>,
      <<"#E", "#e">>, <<"#S", "#s">>, <<"#K", "#k">>, <<"#J", "#j">>,
      <<"#P", "#p">>, <<"#R", "#r">>, <<"#D", "#d">>, <<"#N", "#n">>,
      <<"#Y", "#y">>, <<"#U", "#u">> }

LowerOf(c) ==
    IF \E q \in CaseTable : q[1] = c
    THEN (CHOOSE q \in CaseTable : q[1] = c)[2]
    ELSE c

\* str.lower()
ToLower(w) == [i \in 1..Len(w) |-> LowerOf(w[i])]

Whitespace == {" ", "\n", "\t"}

\* str.strip()
RECURSIVE Strip(_)
Strip(w) ==
    IF w = <<>> THEN w
    ELSE IF Head(w) \in Whitespace THEN Strip(Tail(w))
    ELSE IF w[Len(w)] \in Whitespace THEN Strip(SubSeq(w, 1, Len(w) - 1))
    ELSE w

W_auto ==
    <<"a", "u", "t", "o">>

W_manual ==
    <<"m", "a", "n", "u", "a", "l">>

W_predictive ==
    <<"p", "r", "e", "d", "i", "c", "t", "i", "v", "e">>

\* save_mode: ('авто', 'автоматический', 'automatic')
AutoAliases ==
    { <<"#a", "#v", "#t", "#o">>,
      <<"#a", "#v", "#t", "#o", "#m", "#a", "#t", "#i", "#ch", "#e", "#s",
        "#k", "#i", "#j">>,
      <<"a", "u", "t", "o", "m", "a", "t", "i", "c">> }

\* save_mode: ('авто (предиктивный)', 'предиктивный'), besides 'predictive'
PredictiveAliases ==
    { <<"#a", "#v", "#t", "#o", " ", "(", "#p", "#r", "#e", "#d", "#i", "#k",
        "#t", "#i", "#v", "#n", "#y", "#j", ")">>,
      <<"#p", "#r", "#e", "#d", "#i", "#k", "#t", "#i", "#v", "#n", "#y",
        "#j">> }

\* save_mode: ('ручной'), besides 'manual'
ManualAliases ==
    { <<"#r", "#u", "#ch", "#n", "#o", "#j">> }

NormalizeModeAutoOnly(raw) ==
    LET n == ToLower(Strip(raw)) IN
    IF n \in AutoAliases THEN W_auto ELSE n

\* save_mode: mode_value.strip().lower() and the alias tuples
NormalizeMode(raw) ==
    LET n == ToLower(Strip(raw)) IN
    IF n \in AutoAliases THEN W_auto
    ELSE IF n \in PredictiveAliases \cup {W_predictive} THEN W_predictive
    ELSE IF n \in ManualAliases \cup {W_manual} THEN W_manual
    ELSE n

\* the values save_mode accepts after normalisation
ModeNames == {W_auto, W_manual, W_predictive}

\* the normalised value as the JSON string of mode_settings.mode
ModeString(n) ==
    IF n = W_auto THEN "auto"
    ELSE IF n = W_manual THEN "manual"
    ELSE "predictive"

\* SettingsManager.save_mode(raw)
SaveModeOp(raw) ==
    IF NormalizeMode(raw) \notin ModeNames
    THEN /\ ret' = FALSE
         /\ UNCHANGED <<backups, file, fileTime>>
    ELSE /\ backups' = CreateBackup(backups, now, fileTime)
         /\ file' = [doc |-> SaveData(file, "mode",
                                      ModeString(NormalizeMode(raw))),
                     len |-> DocLen]
         /\ fileTime' = now
         /\ ret' = TRUE

-----------------------------------------------------------------------------
(* One caller at a time: save_settings, set_temperature_settings and       *)
(* save_mode run to completion, the clock advances between calls.          *)

R_AUTO ==
    <<"A", "U", "T", "O">>

R_Manual_padded ==
    <<" ", "M", "a", "n", "u", "a", "l", " ">>

R_Predictive_nl ==
    <<"P", "r", "e", "d", "i", "c", "t", "i", "v", "e", "\n">>

R_Avto ==
    <<"#A", "#v", "#t", "#o">>

R_RUCHNOJ ==
    <<"#R", "#U", "#CH", "#N", "#O", "#J">>

R_Avto_Predictivnyj ==
    <<"#A", "#v", "#t", "#o", " ", "(", "#P", "#r", "#e", "#d", "#i", "#k",
      "#t", "#i", "#v", "#n", "#y", "#j", ")">>

R_semi ==
    <<"s", "e", "m", "i">>

R_empty ==
    <<>>

R_au_to ==
    <<"a", "u", " ", "t", "o">>

R_avtomat ==
    <<"#a", "#v", "#t", "#o", "#m", "#a", "#t">>

\* mode strings handed to save_mode
RawModes ==
    ModeNames \cup AutoAliases \cup PredictiveAliases \cup ManualAliases \cup
    { R_AUTO, R_Manual_padded, R_Predictive_nl, R_Avto, R_RUCHNOJ,
      R_Avto_Predictivnyj, R_semi, R_empty, R_au_to, R_avtomat }

\* setpoints handed to save_settings and set_temperature_settings: the two
\* valid pairs, one pair for each check of validate_settings, and nan
SetpointInputs ==
    SettingsChoices \cup
    { <<5500, 4500>>, <<5000, 5000>>, <<-100, 2000>>, <<9000, 10100>>,
      <<4500, 4505>>, <<1000, 5000>>, <<4500, NaN>>, <<NaN, 5500>> }

\* the last second of the settings plane clock
MaxClock == 7

\* SaveSpec advances the clock this far
MaxSaveClock == 1

saveRest == <<regVars, scnVars, oldDoc, newDoc, wpc, seen, planeVars,
              storeVars, relayVars, lateVars>>

\* a direct call of SettingsManager.save_settings
SaveSettings(mn, mx) ==
    /\ SaveSettingsOp(mn, mx)
    /\ arg' = <<mn, mx>>
    /\ cause' = "save_settings"
    /\ UNCHANGED <<dmSettings, now, saveRest>>

\* set_temperature_settings run by a single caller from validation to the
\* return of save_current_settings
SetAndSave(mn, mx) ==
    /\ arg' = <<mn, mx>>
    /\ cause' = "set_temperature_settings"
    /\ IF ValidateSettings(mn, mx)
       THEN /\ dmSettings' = PublishedSettings(mn, mx)
            /\ SaveSettingsOp(dmSettings'.min, dmSettings'.max)
       ELSE /\ ret' = FALSE
            /\ UNCHANGED <<dmSettings, backups, file, fileTime>>
    /\ UNCHANGED <<now, saveRest>>

\* a call of SettingsManager.save_mode
SaveMode(raw) ==
    /\ SaveModeOp(raw)
    /\ arg' = raw
    /\ cause' = "save_mode"
    /\ UNCHANGED <<dmSettings, now, saveRest>>

\* a second passes
Elapse(maxClock) ==
    /\ now < maxClock
    /\ now' = now + 1
    /\ cause' = "clock"
    /\ UNCHANGED <<dmSettings, file, backups, fileTime, ret, arg, saveRest>>

SaveInit ==
    /\ InitController("hysteresis")
    /\ InitSettings(4500, 5500)
    /\ IdleScenario
    /\ oldDoc = NoDoc /\ newDoc = NoDoc /\ wpc = "idle" /\ seen = "none"
    /\ IdleAux
    /\ file = [doc |-> DefaultDoc, len |-> DocLen]

SaveNext ==
    \/ \E sc \in SetpointInputs : SaveSettings(sc[1], sc[2])
    \/ \E sc \in SetpointInputs : SetAndSave(sc[1], sc[2])
    \/ \E raw \in RawModes : SaveMode(raw)
    \/ Elapse(MaxSaveClock)

SaveSpec == SaveInit /\ [][SaveNext]_vars

\* a backup left by an earlier version of the program
Legacy(stamp, mtime) == [legacy |-> TRUE, stamp |-> stamp, mtime |-> mtime]

\* what config/backups holds when the program starts
LegacyChoices ==
    { {}, {Legacy(-2, -2), Legacy(-1, -1)}, {Legacy(-1, 3)} }

BackupInit ==
    /\ InitController("hysteresis")
    /\ InitSettings(4500, 5500)
    /\ IdleScenario
    /\ oldDoc = NoDoc /\ newDoc = NoDoc /\ wpc = "idle" /\ seen = "none"
    /\ IdlePlane /\ IdleStore /\ IdleRelay /\ IdleLate
    /\ file = [doc |-> DefaultDoc, len |-> DocLen]
    /\ backups \in LegacyChoices
    /\ now = 0 /\ fileTime = 0 /\ ret = FALSE /\ arg = <<>>

BackupNext ==
    \/ \E sc \in SettingsChoices : SaveSettings(sc[1], sc[2])
    \/ \E raw \in {W_manual, R_semi} : SaveMode(raw)
    \/ Elapse(MaxClock)

BackupSpec == BackupInit /\ [][BackupNext]_vars

-----------------------------------------------------------------------------
(* DataManager: one key.  set_data builds the entry, takes _data_lock,     *)
(* replaces the current entry, appends to the history and trims it,        *)
(* releases the lock, and only then calls the subscribers one by one.  An  *)
(* entry is identified by its commit number.                               *)

\* DataManager.max_history_size
MaxHistorySize == 2

\* set_data calls followed
MaxWrites == 4

TrimKeepOldest(h) ==
    IF Len(h) > MaxHistorySize THEN SubSeq(h, 1, MaxHistorySize) ELSE h

\* set_data: history[-max_history_size:] once the history is too long
Trim(h) ==
    IF Len(h) > MaxHistorySize /\ MaxHistorySize > 0
    THEN SubSeq(h, Len(h) - MaxHistorySize + 1, Len(h))
    ELSE h

storeRest == <<ctlVars, scnVars, fileVars, planeVars, saveVars, relayVars,
               lateVars>>

\* set_data: the part under _data_lock, and the copy of the subscriber list
SetDataCommit(w) ==
    /\ dsPc[w] = 0
    /\ Len(dsLog) < MaxWrites
    /\ LET e == Len(dsLog) + 1 IN
          /\ dsCurrent' = e
          /\ dsHistory' = Trim(Append(dsHistory, e))
          /\ dsLog' = Append(dsLog, e)
          /\ dsEntry' = [dsEntry EXCEPT ![w] = e]
    /\ dsPc' = [dsPc EXCEPT ![w] = 1]
    /\ UNCHANGED <<dsSeen, storeRest>>

\* _notify_subscribers: the next callback is called with the entry
NotifySubscriber(w) ==
    /\ dsPc[w] > 0
    /\ dsSeen' = [dsSeen EXCEPT ![dsPc[w]] = Append(@, dsEntry[w])]
    /\ dsPc' = [dsPc EXCEPT ![w] = IF @ = NumSubscribers THEN 0 ELSE @ + 1]
    /\ UNCHANGED <<dsCurrent, dsHistory, dsLog, dsEntry, storeRest>>

StoreInit ==
    /\ InitController("hysteresis")
    /\ InitSettings(4500, 5500)
    /\ IdleScenario
    /\ IdleFile
    /\ IdleAux

StoreNext ==
    \/ \E w \in Writers : SetDataCommit(w)
    \/ \E w \in Writers : NotifySubscriber(w)

StoreSpec == StoreInit /\ [][StoreNext]_vars

-----------------------------------------------------------------------------
(* The regulator is stopped and started again while readings arrive.       *)

\* TemperatureRegulator.start called on the regulator
StartRegulator ==
    /\ Apply(RegulatorStart(CtlState))
    /\ cause' = "start"
    /\ UNCHANGED <<cfg, sinceCheck, history, highMin, lowMax, dmTemp, tempAge,
                   pollError, provTemp, dmSettings>>

\* TemperatureRegulator.stop called on the regulator
StopRegulator ==
    /\ Apply(RegulatorStop(CtlState))
    /\ cause' = "stop_regulator"
    /\ UNCHANGED <<cfg, sinceCheck, history, highMin, lowMax, dmTemp, tempAge,
                   pollError, provTemp, dmSettings>>

LifecycleNext ==
    \/ (\E T \in Temps : PollSuccess(T))
          /\ UNCHANGED <<scnVars, fileVars, auxVars>>
    \/ ProviderUpdate /\ UNCHANGED <<scnVars, fileVars, auxVars>>
    \/ Tick /\ UNCHANGED <<scnVars, fileVars, auxVars>>
    \/ Healthy /\ AdvanceTime(MaxRunTime)
          /\ UNCHANGED <<scnVars, fileVars, auxVars>>
    \/ StartRegulator /\ UNCHANGED <<scnVars, fileVars, auxVars>>
    \/ StopRegulator /\ UNCHANGED <<scnVars, fileVars, auxVars>>
    \/ ControllerStop /\ UNCHANGED <<scnVars, fileVars, auxVars>>

LifecycleSpec == Init /\ [][LifecycleNext]_vars

-----------------------------------------------------------------------------
(* One RelayController with its statistics: _switch_count,                 *)
(* _last_switch_time, _last_on_time and _total_on_time.                    *)

\* the last second of the relay clock, and the switches followed
MaxRelayClock == 3
MaxSwitches == 3

RelayTurnOnCounting(r, t) ==
    IF ~r.init THEN r
    ELSE [r EXCEPT !.state = TRUE, !.last = t, !.lastOn = t,
                   !.count = @ + 1]

\* RelayController.turn_on at time t (GPIO.output does not raise)
RelayTurnOn(r, t) ==
    IF ~r.init THEN r
    ELSE IF ~r.state
         THEN [r EXCEPT !.state = TRUE, !.last = t, !.lastOn = t,
                        !.count = @ + 1]
         ELSE r

\* turn_off that does not count the switch
RelayTurnOffUncounted(r, t) ==
    IF ~r.init THEN r
    ELSE IF r.state
         THEN [r EXCEPT !.state = FALSE, !.last = t,
                        !.total = IF r.lastOn # None
                                  THEN @ + (t - r.lastOn) ELSE @,
                        !.lastOn = None]
         ELSE r

\* RelayController.turn_off at time t
RelayTurnOff(r, t) ==
    IF ~r.init THEN r
    ELSE IF r.state
         THEN [r EXCEPT !.state = FALSE, !.last = t, !.count = @ + 1,
                        !.total = IF r.lastOn # None
                                  THEN @ + (t - r.lastOn) ELSE @,
                        !.lastOn = None]
         ELSE r

relayRest == <<ctlVars, scnVars, fileVars, planeVars, saveVars, storeVars,
               lateVars>>

RcTurnOn ==
    /\ rc.state \/ rc.count < MaxSwitches
    /\ rc' = RelayTurnOn(rc, rcNow)
    /\ rcRet' = rc.init
    /\ rcOp' = "turn_on"
    /\ UNCHANGED <<rcNow, relayRest>>

RcTurnOff ==
    /\ ~rc.state \/ rc.count < MaxSwitches
    /\ rc' = RelayTurnOff(rc, rcNow)
    /\ rcRet' = rc.init
    /\ rcOp' = "turn_off"
    /\ UNCHANGED <<rcNow, relayRest>>

\* RelayController.cleanup on the target
RcCleanup ==
    /\ rc.init
    /\ rc' = Cleanup(rc)
    /\ rcOp' = "cleanup"
    /\ UNCHANGED <<rcNow, rcRet, relayRest>>

\* a second passes
RcElapse ==
    /\ rcNow < MaxRelayClock
    /\ rcNow' = rcNow + 1
    /\ rcOp' = "time"
    /\ UNCHANGED <<rc, rcRet, relayRest>>

RelayNext == RcTurnOn \/ RcTurnOff \/ RcCleanup \/ RcElapse

RelayInit ==
    /\ InitController("hysteresis")
    /\ InitSettings(4500, 5500)
    /\ IdleScenario
    /\ IdleFile
    /\ IdleAux

RelaySpec == RelayInit /\ [][RelayNext]_vars

-----------------------------------------------------------------------------
(* Errors while the system runs.  The settings file can be missing, hold   *)
(* text that is not JSON, or refuse to be opened for writing; the miner    *)
(* can stop answering; GPIO.output can raise; a regulator tick can raise.  *)
(* save_settings and load_settings answer an exception with sys.exit(1):   *)
(* SystemExit is not an Exception, so the handlers of save_current_settings*)
(* and reload_settings_from_file let it pass, and raised on the main       *)
(* thread (the GUI's save button runs there) it ends the process.          *)

DiskStates == {"ok", "missing", "corrupt", "unwritable"}

procRest == <<upper, lower, regRunning, regState, algorithm, cfg, sinceCheck,
              tickDue, history, highMin, lowMax, ctlRunning, isManual,
              dmTemp, tempAge, pollError, provTemp, scnVars, oldDoc, newDoc,
              wpc, seen, planeVars, storeVars, relayVars, now, docVars,
              modeVars, concVars>>

\* the operating system or the operator changes the settings file
DiskFault(d) ==
    /\ alive
    /\ d # disk
    /\ disk' = d
    /\ cause' = "disk"
    /\ UNCHANGED <<alive, dmSettings, file, backups, fileTime, ret, arg,
                   procRest>>

\* SettingsManager.save_settings on valid setpoints with the file as the
\* disk presents it: backup when the file exists, then open(..., 'w')
SaveSettingsOnDisk(mn, mx) ==
    /\ backups' = IF disk = "missing" THEN backups
                  ELSE CreateBackup(backups, now, fileTime)
    /\ IF disk = "unwritable"
       THEN /\ alive' = FALSE
            /\ UNCHANGED <<file, fileTime, ret, disk>>
       ELSE /\ file' = [doc |-> [(IF disk = "ok" THEN file.doc
                                  ELSE DefaultDoc) EXCEPT !.temps = <<mn, mx>>],
                        len |-> DocLen]
            /\ fileTime' = now
            /\ ret' = TRUE
            /\ disk' = "ok"
            /\ UNCHANGED alive

\* set_temperature_settings from validation to the return of
\* save_current_settings, on the main thread
SetAndSaveOnDisk(mn, mx) ==
    /\ alive
    /\ arg' = <<mn, mx>>
    /\ cause' = "set_temperature_settings"
    /\ IF ValidateSettings(mn, mx)
       THEN /\ dmSettings' = PublishedSettings(mn, mx)
            /\ SaveSettingsOnDisk(mn, mx)
       ELSE /\ ret' = FALSE
            /\ UNCHANGED <<dmSettings, backups, file, fileTime, alive, disk>>
    /\ UNCHANGED procRest

\* load_settings can return: the file exists, parses and validates
LoadSettingsOk ==
    /\ disk \in {"ok", "unwritable"}
    /\ ValidateSettings(file.doc.temps[1], file.doc.temps[2])

\* reload_settings_from_file on the main thread
ReloadFromDisk ==
    /\ alive
    /\ cause' = "reload"
    /\ arg' = <<>>
    /\ IF LoadSettingsOk
       THEN /\ dmSettings' = ReloadedSettings(file.doc.temps)
            /\ ret' = TRUE
            /\ UNCHANGED alive
       ELSE /\ alive' = FALSE
            /\ UNCHANGED <<dmSettings, ret>>
    /\ UNCHANGED <<disk, file, backups, fileTime, procRest>>

\* a tick whose GPIO writes raise, had turn_on set the state before the write
TickGpioFailsStateSet ==
    /\ alive
    /\ regRunning /\ tickDue /\ provTemp # None
    /\ algorithm = "hysteresis"
    /\ cfg' = CheckSettings(cfg, sinceCheck, dmSettings)
    /\ sinceCheck' = IF sinceCheck = None \/ sinceCheck >= SettingsCheckInterval
                     THEN 0 ELSE sinceCheck
    /\ history' = AppendHistory(history, provTemp)
    /\ tickDue' = FALSE
    /\ cause' = "tick_gpio"
    /\ upper' = HysteresisUpper(provTemp, upper, cfg')
    /\ UNCHANGED <<lower, regRunning, regState, algorithm, highMin,
                   lowMax, ctlRunning, isManual, dmTemp, tempAge, pollError,
                   provTemp, dmSettings>>
    /\ UNCHANGED <<scnVars, fileVars, auxVars>>

\* a regulator tick in which GPIO.output raises: turn_on / turn_off catch
\* the exception and return False, the relays stay as they are
TickGpioFails ==
    /\ alive
    /\ regRunning /\ tickDue /\ provTemp # None
    /\ algorithm = "hysteresis"
    /\ cfg' = CheckSettings(cfg, sinceCheck, dmSettings)
    /\ sinceCheck' = IF sinceCheck = None \/ sinceCheck >= SettingsCheckInterval
                     THEN 0 ELSE sinceCheck
    /\ history' = AppendHistory(history, provTemp)
    /\ tickDue' = FALSE
    /\ cause' = "tick_gpio"
    /\ UNCHANGED <<upper, lower, regRunning, regState, algorithm, highMin,
                   lowMax, ctlRunning, isManual, dmTemp, tempAge, pollError,
                   provTemp, dmSettings>>
    /\ UNCHANGED <<scnVars, fileVars, auxVars>>

\* a regulator tick whose regulation step raises: the loop's handler logs,
\* sets the state to ERROR and goes on to the wait
TickRaises ==
    /\ alive
    /\ regRunning /\ tickDue /\ provTemp # None
    /\ cfg' = CheckSettings(cfg, sinceCheck, dmSettings)
    /\ sinceCheck' = IF sinceCheck = None \/ sinceCheck >= SettingsCheckInterval
                     THEN 0 ELSE sinceCheck
    /\ history' = AppendHistory(history, provTemp)
    /\ regState' = "error"
    /\ tickDue' = FALSE
    /\ cause' = "tick_error"
    /\ UNCHANGED <<upper, lower, regRunning, algorithm, highMin, lowMax,
                   ctlRunning, isManual, dmTemp, tempAge, pollError, provTemp,
                   dmSettings>>
    /\ UNCHANGED <<scnVars, fileVars, auxVars>>

\* setpoints of the error runs: a valid pair and an inverted one
ErrorInputs == {<<4600, 4800>>, <<5500, 4500>>}

ErrorInit ==
    /\ InitController("hysteresis")
    /\ InitSettings(4500, 5500)
    /\ IdleScenario
    /\ oldDoc = NoDoc /\ newDoc = NoDoc /\ wpc = "idle" /\ seen = "none"
    /\ IdleAux
    /\ file = [doc |-> DefaultDoc, len |-> DocLen]

ErrorNext ==
    \/ \E d \in DiskStates : DiskFault(d)
    \/ \E sc \in ErrorInputs : SetAndSaveOnDisk(sc[1], sc[2])
    \/ ReloadFromDisk
    \/ alive /\ (\E T \in Temps : PollSuccess(T))
          /\ UNCHANGED <<scnVars, fileVars, auxVars>>
    \/ alive /\ PollFail /\ UNCHANGED <<scnVars, fileVars, auxVars>>
    \/ alive /\ ProviderUpdate /\ UNCHANGED <<scnVars, fileVars, auxVars>>
    \/ alive /\ Tick /\ UNCHANGED <<scnVars, fileVars, auxVars>>
    \/ TickGpioFails
    \/ TickRaises

ErrorSpec == ErrorInit /\ [][ErrorNext]_vars

-----------------------------------------------------------------------------
(* The settings document with all its members.  A document is a record:    *)
(* stamp is last_updated (the second of the write), temps the pair of      *)
(* temperature_settings, createdBy and source the members of metadata,     *)
(* mode the member of mode_settings ("absent" without mode_settings), ip   *)
(* the member ip_address_asic and cooling the member cooling_on of         *)
(* cooling_settings ("absent" without them),                               *)
(* extra tells whether the document holds a key the program does not know. *)
(* A settings dict handed to save_settings is the record of its temps and  *)
(* its "source" member ("absent" when it has none).                        *)

\* load_settings: data["temperature_settings"], which holds min_temp and
\* max_temp only
LoadSettingsDoc(d) == [temps |-> d.temps, source |-> "absent"]

\* save_settings that does not carry cooling_settings over
SaveSettingsDocCoolingDropped(d, settings, t) ==
    [stamp |-> t,
     temps |-> settings.temps,
     createdBy |-> "core_system",
     source |-> IF settings.source = "absent" THEN "unknown"
                ELSE settings.source,
     mode |-> d.mode,
     ip |-> d.ip,
     cooling |-> "absent",
     extra |-> FALSE]

\* save_settings: the document it builds from the settings dict and from
\* the document already in the file
SaveSettingsDoc(d, settings, t) ==
    [stamp |-> t,
     temps |-> settings.temps,
     createdBy |-> "core_system",
     source |-> IF settings.source = "absent" THEN "unknown"
                ELSE settings.source,
     mode |-> d.mode,
     ip |-> d.ip,
     cooling |-> d.cooling,
     extra |-> FALSE]

\* save_mode: the loaded document with the members it replaces
SaveModeDoc(d, m, t) ==
    [d EXCEPT !.stamp = t, !.createdBy = "settings_manager",
              !.source = "mode_update", !.mode = m]

\* save_ip_address: the loaded document with the members it replaces
SaveIpDoc(d, ip, t) ==
    [d EXCEPT !.stamp = t, !.createdBy = "settings_manager",
              !.source = "ip_update", !.ip = ip]

\* save_cooling_state: the loaded document with the members it replaces
SaveCoolingDoc(d, on, t) ==
    [d EXCEPT !.stamp = t, !.createdBy = "settings_manager",
              !.source = "cooling_update",
              !.cooling = IF on THEN "on" ELSE "off"]

docRest == <<regVars, scnVars, fileVars, planeVars, storeVars, relayVars,
             procVars, modeVars, concVars, ret, arg>>

\* save_settings(load_settings())
RoundTrip ==
    /\ ValidateSettings(jdoc.temps[1], jdoc.temps[2])
    /\ jdoc' = SaveSettingsDoc(jdoc, LoadSettingsDoc(jdoc), now)
    /\ backups' = CreateBackup(backups, now, fileTime)
    /\ fileTime' = now
    /\ cause' = "round_trip"
    /\ UNCHANGED <<dmSettings, now, docRest>>

\* set_temperature_settings(mx, mn, source_module): save_current_settings
\* hands min_temp, max_temp and the entry's source_module to save_settings
DocSetTemperatureSettings(mn, mx, module) ==
    /\ ValidateSettings(mn, mx)
    /\ dmSettings' = PublishedSettings(mn, mx)
    /\ jdoc' = SaveSettingsDoc(jdoc, [temps |-> <<mn, mx>>, source |-> module],
                               now)
    /\ backups' = CreateBackup(backups, now, fileTime)
    /\ fileTime' = now
    /\ cause' = "set_temperature_settings"
    /\ UNCHANGED <<now, docRest>>

\* save_mode with a mode name
DocSaveMode(m) ==
    /\ jdoc' = SaveModeDoc(jdoc, m, now)
    /\ backups' = CreateBackup(backups, now, fileTime)
    /\ fileTime' = now
    /\ cause' = "save_mode"
    /\ UNCHANGED <<dmSettings, now, docRest>>

\* save_ip_address with an address
DocSaveIp(ip) ==
    /\ jdoc' = SaveIpDoc(jdoc, ip, now)
    /\ backups' = CreateBackup(backups, now, fileTime)
    /\ fileTime' = now
    /\ cause' = "save_ip"
    /\ UNCHANGED <<dmSettings, now, docRest>>

\* save_cooling_state with the state of the cooling button
DocSaveCooling(on) ==
    /\ jdoc' = SaveCoolingDoc(jdoc, on, now)
    /\ backups' = CreateBackup(backups, now, fileTime)
    /\ fileTime' = now
    /\ cause' = "save_cooling"
    /\ UNCHANGED <<dmSettings, now, docRest>>

\* addresses of the miner
Addresses == {"192.168.0.91", "192.168.0.92"}

\* callers of set_temperature_settings
SourceModules == {"gui_interface", "initial_setup"}

\* the clock of the document runs
MaxDocClock == 2

\* the file as the boot finds it: written by this program, or by an earlier
\* version or by hand with a key of its own
DocInit ==
    /\ InitController("hysteresis")
    /\ IdleScenario
    /\ IdleFile
    /\ IdlePlane /\ IdleSave /\ IdleStore /\ IdleRelay /\ IdleProc
    /\ IdleMode /\ IdleConc
    /\ \E sc \in SettingsChoices, x \in BOOLEAN :
          /\ InitSettings(sc[1], sc[2])
          /\ jdoc = [stamp |-> 0, temps |-> sc, createdBy |-> "core_system",
                     source |-> "unknown", mode |-> "absent",
                     ip |-> "absent", cooling |-> "absent", extra |-> x]

DocNext ==
    \/ RoundTrip
    \/ \E sc \in SettingsChoices, m \in SourceModules :
          DocSetTemperatureSettings(sc[1], sc[2], m)
    \/ \E m \in {"auto", "manual"} : DocSaveMode(m)
    \/ \E ip \in Addresses : DocSaveIp(ip)
    \/ \E on \in BOOLEAN : DocSaveCooling(on)
    \/ Elapse(MaxDocClock)

DocSpec == DocInit /\ [][DocNext]_vars

-----------------------------------------------------------------------------
(* The predictive algorithm alone: the controller was started in the mode  *)
(* 'predictive' (initialize_mode_from_settings), the operator leaves the   *)
(* mode alone and may change the setpoints.                                *)

\* readings of the predictive runs, placed around the thresholds of the
\* narrow band 46.0 - 48.0: below the minimum, less than the fixed hysteresis
\* above it, in the middle, less than the fixed hysteresis below the
\* maximum, above the maximum, a degree above it
PredTemps == {4590, 4605, 4700, 4795, 4810, 4900}

PredictiveInit ==
    /\ InitController("predictive")
    /\ \E sc \in SettingsChoices : InitSettings(sc[1], sc[2])
    /\ IdleScenario
    /\ IdleFile
    /\ IdleAux

PredictiveNext ==
    \/ (\E T \in PredTemps : PollSuccess(T))
          /\ UNCHANGED <<scnVars, fileVars, auxVars>>
    \/ ProviderUpdate /\ UNCHANGED <<scnVars, fileVars, auxVars>>
    \/ (\E sc \in SettingsChoices : SetTemperatureSettings(sc[1], sc[2]))
          /\ UNCHANGED <<scnVars, fileVars, auxVars>>
    \/ Tick /\ UNCHANGED <<scnVars, fileVars, auxVars>>
    \/ Healthy /\ AdvanceTime(MaxRunTime)
          /\ UNCHANGED <<scnVars, fileVars, auxVars>>

PredictiveSpec == PredictiveInit /\ [][PredictiveNext]_vars

-----------------------------------------------------------------------------
(* Mode and cooling commands with both algorithms.  The mode is commanded  *)
(* through the MODE entry (on_mode_change: manual, auto, predictive) and   *)
(* through the settings page, whose mode list holds 'Авто' and 'Ручной'    *)
(* and which saves the mode and applies it itself.  The setpoints stay as  *)
(* they are.                                                               *)

\* the mode runs follow the regulator until its first stored sample is this
\* old (seconds)
MaxModeTime == 1

\* RegulatorAlgorithm of a mode name
AlgorithmOf(m) == IF m = "predictive" THEN "predictive" ELSE "hysteresis"

modeRest == <<scnVars, fileVars, planeVars, saveVars, storeVars, relayVars,
              procVars, docVars, concVars>>

\* on_mode_change with the mode name m
OnModeChange(m) ==
    /\ IF m = "manual" THEN SetManualMode ELSE SetAutoMode(AlgorithmOf(m))
    /\ dmMode' = m
    /\ UNCHANGED <<dmCooling, bootPc, modeRest>>

\* COOLING_STATE is written and on_cooling_change is called with it
OnCoolingChange(on) ==
    /\ SetManualCooling(on)
    /\ dmCooling' = on
    /\ UNCHANGED <<dmMode, bootPc, modeRest>>

\* the GUI's cooling button
CoolingButton ==
    ToggleManualCooling /\ UNCHANGED <<modeVars, modeRest>>

\* SettingsPage.save_settings with the setpoints as they are: save_mode of
\* 'manual' or 'auto', then set_manual_mode() or set_auto_mode()
SettingsPageSave(manualSelected) ==
    /\ GuiSaveSettings(dmSettings.min, dmSettings.max, manualSelected)
    /\ dmMode' = IF manualSelected THEN "manual" ELSE "auto"
    /\ UNCHANGED <<dmCooling, bootPc, modeRest>>

\* start_valve_control has applied the mode of the settings file
\* (initialize_mode_from_settings): auto or predictive
ModeInit ==
    /\ \E m \in {"auto", "predictive"} :
          InitController(AlgorithmOf(m)) /\ dmMode = m
    /\ dmCooling = FALSE
    /\ bootPc = "applied"
    /\ InitSettings(4500, 5500)
    /\ IdleScenario
    /\ IdleFile
    /\ IdlePlane /\ IdleSave /\ IdleStore /\ IdleRelay /\ IdleProc /\ IdleDoc
    /\ IdleConc

ModeNext ==
    \/ (\E T \in Temps : PollSuccess(T))
          /\ UNCHANGED <<scnVars, fileVars, auxVars>>
    \/ ProviderUpdate /\ UNCHANGED <<scnVars, fileVars, auxVars>>
    \/ Tick /\ UNCHANGED <<scnVars, fileVars, auxVars>>
    \/ Healthy /\ AdvanceTime(MaxModeTime)
          /\ UNCHANGED <<scnVars, fileVars, auxVars>>
    \/ \E m \in {"manual", "auto", "predictive"} : OnModeChange(m)
    \/ \E on \in BOOLEAN : OnCoolingChange(on)
    \/ CoolingButton
    \/ \E m \in BOOLEAN : SettingsPageSave(m)

ModeSpec == ModeInit /\ [][ModeNext]_vars

-----------------------------------------------------------------------------
(* Startup of the valve control (start_valve_control).  The controller is  *)
(* created and run_forever starts it in a thread of its own; a second      *)
(* thread (apply_mode_when_ready) polls is_running() every 0.2 s and then  *)
(* applies the mode and the cooling state of the settings file.  dmMode    *)
(* and dmCooling hold these persisted values here.  The regulator thread   *)
(* runs from the moment the controller has started it.                     *)

bootRest == <<scnVars, fileVars, planeVars, saveVars, storeVars, relayVars,
              procVars, docVars, concVars, dmMode, dmCooling>>

\* ValveController.start, as run_forever calls it
ControllerStart ==
    /\ bootPc = "created"
    /\ Apply([RegulatorStart(CtlState) EXCEPT
                 !.ctlRunning = RegulatorStartOk(CtlState)])
    /\ bootPc' = "started"
    /\ cause' = "start"
    /\ UNCHANGED <<cfg, sinceCheck, history, highMin, lowMax, dmTemp, tempAge,
                   pollError, provTemp, dmSettings>>
    /\ UNCHANGED bootRest

\* initialize_mode_from_settings
InitializeModeFromSettings(k, mode, cooling) ==
    IF mode = "manual"
    THEN LET k1 == SetManualModeOp(k)
         IN IF ManualCoolingOk(k) THEN SetManualCoolingOp(k1, cooling) ELSE k1
    ELSE SetAutoModeOp(k, AlgorithmOf(mode))

\* apply_mode_when_ready finds the controller running
ApplyModeWhenReady ==
    /\ bootPc = "started"
    /\ ctlRunning
    /\ Apply(InitializeModeFromSettings(CtlState, dmMode, dmCooling))
    /\ bootPc' = "applied"
    /\ cause' = "mode"
    /\ UNCHANGED <<cfg, sinceCheck, history, highMin, lowMax, dmTemp, tempAge,
                   pollError, provTemp, dmSettings>>
    /\ UNCHANGED bootRest

\* the controller has been created with the default algorithm and the
\* settings are synchronised; the temperature provider has been started
\* before and may already hold a reading
StartupInit ==
    /\ upper = NewRelay
    /\ lower = NewRelay
    /\ regRunning = FALSE
    /\ regState = "stopped"
    /\ algorithm = "hysteresis"
    /\ sinceCheck = None
    /\ tickDue = FALSE
    /\ history = <<>>
    /\ highMin = None
    /\ lowMax = None
    /\ ctlRunning = FALSE
    /\ isManual = FALSE
    /\ \E T \in Temps \cup {None} : dmTemp = T /\ provTemp = T
    /\ tempAge = 0
    /\ pollError = FALSE
    /\ cause = "init"
    /\ InitSettings(4500, 5500)
    /\ IdleScenario
    /\ IdleFile
    /\ IdlePlane /\ IdleSave /\ IdleStore /\ IdleRelay /\ IdleProc /\ IdleDoc
    /\ IdleConc
    /\ dmMode \in {"manual", "auto", "predictive"}
    /\ dmCooling \in BOOLEAN
    /\ bootPc = "created"

StartupNext ==
    \/ ControllerStart
    \/ ApplyModeWhenReady
    \/ (\E T \in Temps : PollSuccess(T))
          /\ UNCHANGED <<scnVars, fileVars, auxVars>>
    \/ ProviderUpdate /\ UNCHANGED <<scnVars, fileVars, auxVars>>
    \/ Tick /\ UNCHANGED <<scnVars, fileVars, auxVars>>
    \/ Healthy /\ AdvanceTime(MaxModeTime)
          /\ UNCHANGED <<scnVars, fileVars, auxVars>>

StartupSpec == StartupInit /\ [][StartupNext]_vars

-----------------------------------------------------------------------------
(* Two threads call save_* methods of the SettingsManager at the same      *)
(* time, each for a field of its own.  Every save_* method reads the file, *)
(* changes its field in what it read and writes the whole document; none   *)
(* takes a lock.  The write is one step here (torn writes are the subject  *)
(* of the section on writes above).                                        *)

SaveFields == {"temps", "mode", "cooling"}

\* the values a call may carry for its field
SaveValues(field) ==
    IF field = "temps" THEN SettingsChoices
    ELSE IF field = "mode" THEN {"auto", "manual"}
    ELSE BOOLEAN

concRest == <<ctlVars, scnVars, oldDoc, newDoc, wpc, seen, planeVars,
              saveVars, storeVars, relayVars, procVars, docVars, modeVars,
              raceVars>>

\* the call of thread t has loaded the existing document and set its field
SaveCallRead(t) ==
    /\ svPc[t] = "idle"
    /\ svDoc' = [svDoc EXCEPT ![t] = SaveData(file, svReq[t][1], svReq[t][2])]
    /\ svPc' = [svPc EXCEPT ![t] = "write"]
    /\ UNCHANGED <<file, svReq, concRest>>

\* the call of thread t has written its document and returned True
SaveCallWrite(t) ==
    /\ svPc[t] = "write"
    /\ file' = [doc |-> svDoc[t], len |-> DocLen]
    /\ svPc' = [svPc EXCEPT ![t] = "done"]
    /\ UNCHANGED <<svReq, svDoc, concRest>>

ConcInit ==
    /\ InitController("hysteresis")
    /\ InitSettings(4500, 5500)
    /\ IdleScenario
    /\ \E d \in Docs : file = [doc |-> d, len |-> DocLen]
    /\ oldDoc = NoDoc /\ newDoc = NoDoc
    /\ wpc = "idle" /\ seen = "none"
    /\ IdlePlane /\ IdleSave /\ IdleStore /\ IdleRelay
    /\ IdleProc /\ IdleDoc /\ IdleMode
    /\ IdleRace
    /\ svPc = [t \in Writers |-> "idle"]
    /\ svDoc = [t \in Writers |-> NoDoc]
    /\ \E f1 \in SaveFields : \E f2 \in SaveFields \ {f1} :
          \E v1 \in SaveValues(f1), v2 \in SaveValues(f2) :
              svReq = [t \in Writers |-> IF t = 1 THEN <<f1, v1>>
                                         ELSE <<f2, v2>>]

ConcNext ==
    \/ \E t \in Writers : SaveCallRead(t)
    \/ \E t \in Writers : SaveCallWrite(t)

ConcSpec == ConcInit /\ [][ConcNext]_vars

-----------------------------------------------------------------------------
(* The hysteresis regulator with GPIO writes that may fail.  rc holds the  *)
(* statistics of the upper relay's RelayController and rcNow its clock.    *)

gpioRest == <<rcOp, rcRet, scnVars, fileVars, planeVars, saveVars, storeVars,
              lateVars>>

\* a tick whose GPIO writes succeed; the upper RelayController counts the
\* switch
TickGpioOk ==
    /\ Tick
    /\ rc' = IF upper'.state = upper.state THEN rc
             ELSE IF upper'.state THEN RelayTurnOn(rc, rcNow)
             ELSE RelayTurnOff(rc, rcNow)
    /\ UNCHANGED <<rcNow, gpioRest>>

\* a second passes
GpioElapse ==
    /\ rcNow < MaxRelayClock
    /\ Healthy
    /\ AdvanceTime(MaxRelayClock)
    /\ rcNow' = rcNow + 1
    /\ UNCHANGED <<rc, gpioRest>>

GpioNext ==
    \/ (\E T \in BandTemps : PollSuccess(T))
          /\ UNCHANGED <<scnVars, fileVars, auxVars>>
    \/ ProviderUpdate /\ UNCHANGED <<scnVars, fileVars, auxVars>>
    \/ TickGpioOk
    \/ TickGpioFails
    \/ GpioElapse

GpioSpec == Init /\ [][GpioNext]_vars

-----------------------------------------------------------------------------
(* set_manual_mode, set_auto_mode and set_manual_cooling called from two   *)
(* threads (the GUI thread and a DataManager callback).  None of them      *)
(* takes a lock.  set_manual_mode and set_auto_mode call the controller    *)
(* and assign the flag _is_manual_mode afterwards; set_manual_cooling      *)
(* tests the flag and calls the controller afterwards.  Each of the two    *)
(* halves is one step.                                                     *)

RaceOps == {"manual", "auto", "cooling_on", "cooling_off"}

raceRest == <<cfg, sinceCheck, history, highMin, lowMax, dmTemp, tempAge,
              pollError, provTemp, dmSettings, scnVars, fileVars, planeVars,
              saveVars, storeVars, relayVars, procVars, docVars, modeVars,
              svPc, svReq, svDoc>>

\* the first half of a call of thread t
RaceFirst(t, op) ==
    /\ cPc[t] = "idle"
    /\ ctlRunning
    /\ cOp' = [cOp EXCEPT ![t] = op]
    /\ IF op = "manual"
       THEN /\ Apply(ManualCoolingOff(CtlState))
            /\ cOk' = [cOk EXCEPT ![t] = ManualCoolingOk(CtlState)]
            /\ cPc' = [cPc EXCEPT ![t] = "flag"]
       ELSE IF op = "auto"
       THEN /\ Apply(ResumeAutomaticControl(CtlState, "hysteresis"))
            /\ cOk' = [cOk EXCEPT ![t] = RegulatorStartOk(CtlState)]
            /\ cPc' = [cPc EXCEPT ![t] = "flag"]
       ELSE /\ isManual
            /\ Apply(CtlState)
            /\ cPc' = [cPc EXCEPT ![t] = "relay"]
            /\ UNCHANGED cOk
    /\ cause' = "race"
    /\ UNCHANGED raceRest

\* the second half of a call of thread t; the call returns
RaceSecond(t) ==
    /\ cPc[t] \in {"flag", "relay"}
    /\ IF cPc[t] = "flag"
       THEN Apply([CtlState EXCEPT
                      !.isManual = IF cOk[t] THEN cOp[t] = "manual" ELSE @])
       ELSE Apply(IF cOp[t] = "cooling_on" THEN ManualCoolingOn(CtlState)
                  ELSE ManualCoolingOff(CtlState))
    /\ cPc' = [cPc EXCEPT ![t] = "idle"]
    /\ cause' = "race"
    /\ UNCHANGED <<cOp, cOk, raceRest>>

RaceNext ==
    \/ \E t \in Setters, op \in RaceOps : RaceFirst(t, op)
    \/ \E t \in Setters : RaceSecond(t)

RaceSpec == Init /\ [][RaceNext]_vars

-----------------------------------------------------------------------------
(* Properties of the relays and of the regulation *)

\* C1: in every reachable state of the running system the upper and the
\* lower relay are never both ON.
C1_MutualExclusion == ~(upper.state /\ lower.state)

\* C2: every OFF->ON or ON->OFF transition of a relay, whether made by a
\* regulator tick, by the regulator's stop, by a manual cooling command or by
\* a manual toggle, happens only when at least min_cycle_time has passed
\* since that relay's previous transition.
C2_MinCycle ==
    [][ /\ upper'.state # upper.state => CanSwitchNow(upper)
        /\ lower'.state # lower.state => CanSwitchNow(lower) ]_vars

\* C3: while the mode is Manual a relay changes state only as the result of
\* a cooling command, never because of a reading or a setpoint change.
C3_ManualOnlyCooling ==
    [][ (isManual /\ isManual'
           /\ <<upper.state, lower.state>>' # <<upper.state, lower.state>>)
        => cause' = "cooling" ]_vars

\* C4: on a hysteresis tick with reading T and no min-cycle block the upper
\* relay, if OFF, turns ON exactly when T >= max and, if ON, turns OFF
\* exactly when T < max - H, where H = max - min of the current settings.
C4_UpperRule ==
    [][ (cause' = "tick" /\ algorithm = "hysteresis" /\ provTemp # None
           /\ CanSwitchNow(upper))
        => upper'.state = IF ~upper.state
                          THEN provTemp >= cfg'.max
                          ELSE ~(provTemp < cfg'.max - (cfg'.max - cfg'.min))
      ]_vars

\* C5: on a hysteresis tick with reading T and no min-cycle block the lower
\* relay, if OFF, turns ON exactly when T < min and, if ON, turns OFF
\* exactly when T > min + H, where H = max - min of the current settings.
C5_LowerRule ==
    [][ (cause' = "tick" /\ algorithm = "hysteresis" /\ provTemp # None
           /\ CanSwitchNow(lower))
        => lower'.state = IF ~lower.state
                          THEN provTemp < cfg'.min
                          ELSE ~(provTemp > cfg'.min + (cfg'.max - cfg'.min))
      ]_vars

\* C9: in Auto mode, while the latest TEMPERATURE is stale (no successful
\* poll for more than 10 s, or the last poll ended in an error), a regulator
\* tick changes the state of neither relay.
C9_StaleHolds ==
    [][ (cause' = "tick" /\ Stale)
        => (upper'.state = upper.state /\ lower'.state = lower.state) ]_vars

\* a tick has just switched the upper relay on although the last successful
\* poll is older than the temperature timeout
C9_StaleTickSwitched ==
    /\ tempAge > TemperatureTimeout
    /\ cause = "tick"
    /\ upper.state /\ upper.since = 0

\* C10: at every point during or after a write of the settings file,
\* including after a crash inside the write and for a concurrent reader, the
\* file holds the complete old or the complete new document, never an empty
\* or partial one.
C10_FileComplete ==
    /\ Complete(file)
    /\ file.doc \in {oldDoc, newDoc}
    /\ seen \in {"none", "document"}

-----------------------------------------------------------------------------
(* Scenario properties *)

ON == TRUE
OFF == FALSE

S1Expected ==
    <<(<<OFF, OFF>>), (<<ON, OFF>>), (<<ON, OFF>>), (<<ON, OFF>>),
      (<<OFF, OFF>>), (<<OFF, OFF>>), (<<OFF, OFF>>), (<<OFF, ON>>),
      (<<OFF, ON>>)>>

S2Upper == <<OFF, ON, OFF, ON>>

\* C7 (amended): in scenario S2 (predictive, readings 53.0 53.3 53.6 53.9)
\* the upper relay is OFF after tick 1, ON after tick 2, OFF after tick 3
\* and ON after tick 4; the lower relay stays OFF.
C7_ScenarioS2 ==
    script.name = "S2" =>
        \A i \in 1..Len(trace) : trace[i] = <<S2Upper[i], OFF>>

C7_Witness == script.name = "S2" /\ Len(trace) = 4 /\ upper.state

\* C7 as stated: in scenario S2 the upper relay is OFF after ticks 1 to 3
\* and ON after tick 4.
C7_AsStated ==
    script.name = "S2" =>
        \A i \in 1..Len(trace) : trace[i][1] = (i >= 4)

\* C8: in scenario S3 (manual mode, cooling off, T = 60.0 for 5 ticks) both
\* relays stay OFF until COOLING_STATE is set to true; from then on the
\* upper relay is ON, also after the next tick, and the lower relay is OFF.
C8_ScenarioS3 ==
    script.name = "S3" =>
        /\ pos[1] <= 6 => ~upper.state /\ ~lower.state
        /\ pos[1] >= 7 => upper.state /\ ~lower.state
        /\ \A i \in 1..Len(trace) : trace[i] = <<i >= 6, OFF>>

C8_Witness ==
    script.name = "S3" /\ Len(trace) = 6 /\ upper.state /\ isManual

-----------------------------------------------------------------------------
(* Properties of the settings plane *)

\* C11: whenever a set_temperature_settings call returns success, racing
\* callers and reloads included, the setpoints in the settings file equal
\* the min/max of the TEMPERATURE_SETTINGS entry of the DataManager.
C11_RoundTrip ==
    [][\A t \in Setters :
          (setPc[t] = "save" /\ setPc'[t] = "idle" /\ setRet'[t])
             => file'.doc.temps = <<dmSettings'.min, dmSettings'.max>>]_vars

\* C12: every TEMPERATURE_SETTINGS value the core publishes (at boot, on
\* reload, in set_temperature_settings) has hysteresis = max - min.
C12_Hysteresis == dmSettings.hysteresis = dmSettings.max - dmSettings.min

\* a reload has published setpoints other than the booted ones
C12_Witness ==
    /\ cause = "reload"
    /\ dmSettings.hysteresis = 200
    /\ cfg.max - cfg.min = 1000

\* setpoints with 0 <= min < max <= 100 and 0.1 <= max - min <= 30
Admissible(mn, mx) ==
    /\ mn # NaN /\ mx # NaN
    /\ TempFloor <= mn /\ mn < mx /\ mx <= TempCeiling
    /\ MinSpan <= mx - mn /\ mx - mn <= MaxSpan

\* C13: save_settings and set_temperature_settings called with setpoints
\* that violate 0 <= min < max <= 100 or 0.1 <= max - min <= 30 return
\* false and leave the settings file, the backups and the DataManager
\* TEMPERATURE_SETTINGS entry as they were.
C13_InvalidRefused ==
    [][(/\ cause' \in {"save_settings", "set_temperature_settings"}
        /\ ~Admissible(arg'[1], arg'[2]))
          => /\ ~ret'
             /\ file' = file
             /\ backups' = backups
             /\ dmSettings' = dmSettings]_vars

\* a call with min > max has been refused
C13_Refused ==
    cause = "set_temperature_settings" /\ arg = <<5500, 4500>> /\ ~ret

\* backups of the first set whose file name is gone in the second
Removed(b, c) ==
    {x \in b : ~\E y \in c : y.legacy = x.legacy /\ y.stamp = x.stamp}

\* C14: after every save the backups directory holds at most 5 backups,
\* gui_settings_* and temperature_settings_* together, and a backup that
\* was removed is no younger by mtime than any backup that was kept.
C14_BackupsPruned ==
    [][/\ Cardinality(backups') <= MaxBackups
       /\ \A x \in Removed(backups, backups') :
             \A y \in backups' : x.mtime <= y.mtime]_vars

\* the directory is full and the backups of the first seconds are gone
C14_Witness ==
    /\ Cardinality(backups) = MaxBackups
    /\ \A x \in backups : ~x.legacy /\ x.stamp >= 2

\* the mode a string names, whatever its case and surrounding blanks
C15_ModeOf(raw) ==
    LET n == ToLower(Strip(raw)) IN
    IF n \in AutoAliases \cup {W_auto} THEN "auto"
    ELSE IF n \in ManualAliases \cup {W_manual} THEN "manual"
    ELSE IF n \in PredictiveAliases \cup {W_predictive} THEN "predictive"
    ELSE "none"

\* C15: save_mode maps its argument, case-insensitively, to auto, manual or
\* predictive and writes that value only; for a string that names no mode
\* it returns false, writes nothing and creates no backup.
C15_SaveMode ==
    [][cause' = "save_mode" =>
          IF C15_ModeOf(arg') = "none"
          THEN /\ ~ret'
               /\ file' = file
               /\ fileTime' = fileTime
               /\ backups' = backups
          ELSE /\ ret'
               /\ file'.doc =
                     [ExistingData(file) EXCEPT !.mode = C15_ModeOf(arg')]]_vars

\* 'Авто (Предиктивный)' has been saved as predictive
C15_Witness ==
    /\ cause = "save_mode"
    /\ arg = R_Avto_Predictivnyj
    /\ ret
    /\ file.doc.mode = "predictive"

\* C16: setting the mode to the value it already has changes nothing: the
\* relays and the regulator are as they were (in Manual with cooling ON the
\* upper relay stays ON, in Auto the regulator is not restarted).
C16_SameModeNoOp ==
    [][(cause' \in {"mode", "gui_save"} /\ isManual' = isManual)
          => /\ upper' = upper
             /\ lower' = lower
             /\ regRunning' = regRunning
             /\ regState' = regState]_vars

\* Auto has been selected again while the regulator was running
C16_AutoAgain ==
    cause = "mode" /\ ~isManual /\ regRunning /\ upper.state

-----------------------------------------------------------------------------
(* Properties of the DataManager *)

\* C17: for one key and any interleaving of concurrent set_data calls,
\* every subscriber callback is called once per write, in the order in
\* which the writes were committed.
C17_CommitOrder ==
    \A c \in Subscribers :
       /\ \A i, j \in DOMAIN dsSeen[c] :
             i < j => dsSeen[c][i] < dsSeen[c][j]
       /\ (\A w \in Writers : dsPc[w] = 0) => dsSeen[c] = dsLog

\* both writers have written and every callback has been called for both
C17_Delivered ==
    /\ Len(dsLog) = 2
    /\ dsEntry = <<1, 2>>
    /\ \A c \in Subscribers : Len(dsSeen[c]) = 2

\* the last n elements of a sequence
LastOf(q, n) == SubSeq(q, Len(q) - n + 1, Len(q))

\* C18: after any set_data calls the history of a key holds at most
\* max_history_size entries, they are the latest writes in commit order,
\* and the current entry is the last element of the history.
C18_History ==
    /\ Len(dsHistory) <= MaxHistorySize
    /\ dsHistory =
          IF Len(dsLog) <= MaxHistorySize THEN dsLog
          ELSE LastOf(dsLog, MaxHistorySize)
    /\ dsLog # <<>> => dsCurrent = dsHistory[Len(dsHistory)]

\* two writers have written more than the history holds, one of them is
\* still calling subscribers
C18_Witness ==
    /\ Len(dsLog) > MaxHistorySize
    /\ Len(dsHistory) = MaxHistorySize
    /\ \E w \in Writers : dsPc[w] > 0
    /\ \A w \in Writers : dsEntry[w] # None

-----------------------------------------------------------------------------
(* Properties of the regulator life cycle and of one relay *)

\* C19: start() on a stopped regulator whose relays are initialized makes
\* it Running; stop() on a running regulator leaves it Stopped with both
\* relays OFF; once it is Stopped no regulation tick changes a relay.
C19_Lifecycle ==
    [][/\ (cause' = "start" /\ ~regRunning /\ upper.init /\ lower.init)
            => (regRunning' /\ regState' = "running")
       /\ (cause' = "stop_regulator" /\ regRunning)
            => (regState' = "stopped" /\ ~upper'.state /\ ~lower'.state)
       /\ (cause' = "tick" /\ regState = "stopped")
            => (upper'.state = upper.state /\ lower'.state = lower.state)
      ]_vars

\* the regulator was stopped after a tick on a hot reading had switched
\* the cooling on
C19_Witness ==
    /\ cause = "stop_regulator"
    /\ regState = "stopped"
    /\ ~upper.state /\ upper.since = 0
    /\ history # <<>> /\ history[Len(history)].T = 5600

-----------------------------------------------------------------------------
\* C21: once the system is running, no error of any kind (a settings-file
\* write failure, a missing or corrupt settings file on reload, invalid
\* input, a GPIO failure, a network failure, an exception inside a regulator
\* tick) terminates the process.
C21_NoExit == alive

\* the process has exited inside set_temperature_settings, on the write
C21_ExitedOnWrite ==
    ~alive /\ cause = "set_temperature_settings" /\ disk = "unwritable"

-----------------------------------------------------------------------------
\* C22: for every valid settings document on disk, save_settings(
\* load_settings()) leaves the document identical to what it was before,
\* except for the last_updated field: every other member, the metadata and
\* any additional key included, is preserved.
C22_RoundTrip ==
    [][cause' = "round_trip" => jdoc' = [jdoc EXCEPT !.stamp = jdoc'.stamp]]_vars

\* a round trip was made on a document that save_mode had written
C22_AfterSaveMode ==
    cause = "round_trip" /\ jdoc.mode # "absent" /\ jdoc.createdBy = "core_system"

-----------------------------------------------------------------------------
\* C23: after shutdown through ValveController.stop() (explicit or by
\* signal), started from any mode, Manual with cooling ON (the regulator
\* thread already stopped) included, both relays report OFF.
C23_ShutdownOff == cause = "stop" => ~upper.state /\ ~lower.state

\* the controller was stopped from an automatic mode, the regulator running
C23_StoppedFromAuto == cause = "stop" /\ ~isManual /\ regState = "stopped"

\* the controller was stopped in Manual mode
C23_StoppedFromManual == cause = "stop" /\ isManual /\ ~ctlRunning

-----------------------------------------------------------------------------
\* C24: while the regulator runs, after TEMPERATURE_SETTINGS changes the
\* regulator's working min, max and hysteresis all equal the published
\* values once a tick has re-read the settings, and the working hysteresis
\* used in the OFF thresholds equals max - min of the new settings.
C24_SettingsRefresh ==
    [][ (cause' = "tick"
           /\ (sinceCheck = None \/ sinceCheck >= SettingsCheckInterval))
        => /\ cfg'.min = dmSettings.min
           /\ cfg'.max = dmSettings.max
           /\ WorkingHysteresis(cfg') = dmSettings.hysteresis
           /\ WorkingHysteresis(cfg') = cfg'.max - cfg'.min ]_vars

\* a tick has just re-read the settings and works with the published
\* thresholds
C24_Refreshed ==
    /\ cause = "tick" /\ sinceCheck = 0
    /\ cfg.min = dmSettings.min /\ cfg.max = dmSettings.max
    /\ history # <<>>

-----------------------------------------------------------------------------
\* the lower relay as it is when a tick actuates the upper one: the
\* predictive rules have tried to switch it off first, the hysteresis rules
\* have not touched it yet
LowerAtUpperActuation ==
    IF algorithm = "predictive"
    THEN PredictiveUpper(provTemp, upper, lower, cfg', ComputeSlope(history'),
                         highMin).lower.state
    ELSE lower.state

\* C25: in every tick of either algorithm a channel is switched ON only if
\* the other channel is OFF at the moment of actuation (the lower channel is
\* actuated after the upper one).
C25_Interlock ==
    [][ cause' = "tick"
        => /\ (~upper.state /\ upper'.state) => ~LowerAtUpperActuation
           /\ (~lower.state /\ lower'.state) => ~upper'.state ]_vars

\* a predictive tick has switched the lower relay off and the upper one on
C25_OtherSwitchedOffFirst ==
    /\ cause = "tick" /\ algorithm = "predictive"
    /\ upper.state /\ upper.since = 0
    /\ ~lower.state /\ lower.since = 0

-----------------------------------------------------------------------------
\* a predictive tick with a reading in which the min-cycle guard lets the
\* relay r switch
PredictiveTickOn(r) ==
    /\ cause' = "tick" /\ algorithm = "predictive" /\ provTemp # None
    /\ r.state /\ CanSwitchNow(r)

\* the upper OFF rule as stated, with the hysteresis h
UpperOffRule(T, c, s, hm, h) ==
    \/ T < c.max - h
    \/ /\ s.ok /\ SlopeGE(s, ReverseRate)
       /\ hm # None /\ T >= hm + ReverseMargin
       /\ T <= c.max - PreOffMargin

\* C26: in Predictive mode with upper ON and no min-cycle block, upper turns
\* OFF on a tick exactly when T < max - H (H = max - min, the hysteresis of
\* the settings) or the slope is at least reverse_rate, T is at least
\* upper_min_since_on + reverse_margin and T is at most max - pre_off_margin;
\* in every other case upper stays ON.
C26_UpperOff ==
    [][ PredictiveTickOn(upper)
        => upper'.state = ~UpperOffRule(provTemp, cfg', ComputeSlope(history'),
                                        highMin, cfg'.max - cfg'.min) ]_vars

\* the same rule with the fixed hysteresis the code works with
C26_UpperOffFixedHysteresis ==
    [][ PredictiveTickOn(upper)
        => upper'.state = ~UpperOffRule(provTemp, cfg', ComputeSlope(history'),
                                        highMin, Hysteresis) ]_vars

\* a predictive tick has switched the upper relay off
C26_SwitchedOff ==
    /\ cause = "tick" /\ algorithm = "predictive"
    /\ ~upper.state /\ upper.since = 0

-----------------------------------------------------------------------------
\* the smaller and the larger of two readings
Min2(a, b) == IF a <= b THEN a ELSE b

Max2(a, b) == IF a >= b THEN a ELSE b

\* C27: in Predictive mode, at every tick on which the upper relay is ON,
\* upper_min_since_on is the minimum of the readings since the upper relay
\* turned ON: the reading of the tick that turned it ON, lowered by every
\* later tick whose reading is below the recorded value.
C27_UpperMinTracked ==
    [][ (cause' = "tick" /\ algorithm = "predictive" /\ provTemp # None
           /\ upper'.state)
        => highMin' = IF upper.state /\ highMin # None
                      THEN Min2(highMin, provTemp)
                      ELSE provTemp ]_vars

\* a predictive tick has read less than the reading that turned the upper
\* relay on, and has left the relay ON
C27_LowerReadingWhileOn ==
    /\ cause = "tick" /\ algorithm = "predictive"
    /\ upper.state /\ upper.since > 0
    /\ Len(history) >= 2
    /\ history[Len(history)].T < history[Len(history) - 1].T

-----------------------------------------------------------------------------
\* the lower ON rule as stated
LowerOnRule(T, c, s) ==
    \/ T < c.min
    \/ s.ok /\ SlopeLTNeg(s, MinRate) /\ PredictedLE(T, s, c.min + PreOnMargin)

\* the lower reversal rule as stated
LowerReversalRule(T, c, s, lm) ==
    /\ s.ok /\ NegSlopeGE(s, ReverseRate)
    /\ lm # None /\ T <= lm - ReverseMargin
    /\ T >= c.min + PreOffMargin

\* a predictive tick with a reading turns the lower relay, OFF and free to
\* switch while the upper one is OFF, ON exactly by the ON rule
C28_LowerOn ==
    (cause' = "tick" /\ algorithm = "predictive" /\ provTemp # None
       /\ ~lower.state /\ CanSwitchNow(lower) /\ ~upper.state /\ ~upper'.state)
    => lower'.state = LowerOnRule(provTemp, cfg', ComputeSlope(history'))

\* a predictive tick that turns the lower relay OFF below the hysteresis
\* threshold, the upper turn-on conditions not holding, does so by reversal
C28_LowerOffByReversal ==
    (PredictiveTickOn(lower) /\ ~lower'.state
       /\ ~(provTemp > cfg'.min + Hysteresis)
       /\ ~ShouldHighOn(provTemp, upper.state, cfg', ComputeSlope(history')))
    => LowerReversalRule(provTemp, cfg', ComputeSlope(history'), lowMax)

\* lower_max_since_on is the largest reading since the lower relay turned ON
C28_LowerMaxTracked ==
    (cause' = "tick" /\ algorithm = "predictive" /\ provTemp # None
       /\ lower'.state)
    => lowMax' = IF lower.state /\ lowMax # None
                 THEN Max2(lowMax, provTemp)
                 ELSE provTemp

\* C28: the Predictive lower-channel rules mirror the upper-channel rules
\* with the slope negated: lower turns ON when OFF and (T < min or the slope
\* is below -min_rate and the predicted reading is at most min +
\* pre_on_margin); it turns OFF by reversal only when -slope >= reverse_rate,
\* T <= lower_max_since_on - reverse_margin and T >= min + pre_off_margin;
\* lower_max_since_on is the maximum reading since lower turned ON.
C28_LowerMirror ==
    [][C28_LowerOn /\ C28_LowerOffByReversal /\ C28_LowerMaxTracked]_vars

\* a predictive tick has turned the lower relay on ahead of the minimum
C28_LowerPreOn ==
    /\ cause = "tick" /\ algorithm = "predictive"
    /\ lower.state /\ lower.since = 0 /\ provTemp >= cfg.min


-----------------------------------------------------------------------------
(* C29: a COOLING_STATE change, or a manual cooling or toggle request,     *)
(* that arrives while the mode is Auto or Predictive is ignored: both      *)
(* relays, the regulator (running flag, state, algorithm, pending          *)
(* iteration), the manual-mode flag and the mode stay as they were.        *)
C29_CoolingIgnored ==
    [][(cause' = "cooling" /\ dmMode \in {"auto", "predictive"})
          => UNCHANGED <<upper, lower, regRunning, regState, algorithm,
                         tickDue, isManual, dmMode>>]_vars

\* a cooling request has arrived in Predictive mode while the regulator was
\* cooling
C29_IgnoredWhileCooling ==
    /\ cause = "cooling"
    /\ dmMode = "predictive"
    /\ ~isManual
    /\ regRunning
    /\ upper.state


-----------------------------------------------------------------------------
(* C30: when the MODE entry changes to Auto or Predictive while the        *)
(* controller is running, the regulator is running afterwards with the     *)
(* algorithm of that mode (hysteresis for Auto, predictive for Predictive) *)
(* and the manual-mode flag is cleared, whatever the mode was before - an  *)
(* automatic mode with the other algorithm included.                       *)
C30_AutoModeApplied ==
    [][(cause' = "mode" /\ ctlRunning /\ dmMode' \in {"auto", "predictive"})
          => /\ regRunning'
             /\ algorithm' = AlgorithmOf(dmMode')
             /\ ~isManual']_vars

\* MODE has changed to Auto on a regulator that was already running and had
\* switched the upper relay on under the predictive algorithm
C30_SwitchedFromPredictive ==
    /\ cause = "mode"
    /\ dmMode = "auto"
    /\ algorithm = "hysteresis"
    /\ regRunning /\ ~tickDue
    /\ ~isManual
    /\ highMin # None


-----------------------------------------------------------------------------
(* C31: immediately after the mode has changed from Auto or Predictive to  *)
(* Manual, through the MODE entry or the settings page and whatever the    *)
(* relays were, the lower relay is off, the regulator is stopped, and a    *)
(* COOLING_STATE value of "on" written before the change has not switched  *)
(* the upper relay on.                                                     *)
C31_ManualEntry ==
    [][(/\ cause' \in {"mode", "gui_save"}
        /\ dmMode \in {"auto", "predictive"}
        /\ dmMode' = "manual")
          => /\ ~lower'.state
             /\ ~regRunning'
             /\ regState' = "stopped"
             /\ (dmCooling => ~upper'.state)]_vars

\* Manual has been entered with COOLING_STATE "on" written beforehand, and
\* the lower relay was switched off within the last second
C31_EnteredWithCoolingWritten ==
    /\ cause = "mode"
    /\ dmMode = "manual"
    /\ isManual
    /\ dmCooling
    /\ ~upper.state
    /\ ~lower.state /\ lower.since = 0
    /\ ~regRunning


-----------------------------------------------------------------------------
(* C32: at startup with the persisted mode Manual, no iteration of the     *)
(* regulator switches a relay between the start of the controller and the  *)
(* moment Manual is applied.                                               *)
C32_NoTickBeforeManual ==
    [][(bootPc = "started" /\ dmMode = "manual" /\ cause' = "tick")
          => (upper'.state = upper.state /\ lower'.state = lower.state)]_vars

\* the persisted mode is Manual, it is not applied yet, and the regulator
\* has switched the upper relay on
C32_CooledBeforeManual ==
    /\ bootPc = "started"
    /\ dmMode = "manual"
    /\ cause = "tick"
    /\ upper.state


-----------------------------------------------------------------------------
\* the field of the settings document d
FieldOf(d, field) ==
    IF field = "temps" THEN d.temps
    ELSE IF field = "mode" THEN d.mode
    ELSE d.cooling

(* C33: when two concurrent save_* calls for different fields have both    *)
(* returned True, the settings file holds both updates.                    *)
C33_NoLostUpdate ==
    (\A t \in Writers : svPc[t] = "done")
        => \A t \in Writers : FieldOf(file.doc, svReq[t][1]) = svReq[t][2]

\* both calls have returned and the file lacks the update of the first one,
\* which differed from what the file held before
C33_LostUpdate ==
    /\ \A t \in Writers : svPc[t] = "done"
    /\ FieldOf(file.doc, svReq[1][1]) # svReq[1][2]
    /\ FieldOf(file.doc, svReq[2][1]) = svReq[2][2]


-----------------------------------------------------------------------------
(* C34: a save changes only what its caller supplied.  A successful        *)
(* save_settings with setpoints only leaves ip_address_asic, the mode and  *)
(* cooling_on as they were; save_mode, save_ip_address and                 *)
(* save_cooling_state each leave temperature_settings and the other two of *)
(* these members as they were.                                             *)
C34_SaveFrame ==
    [][/\ cause' \in {"round_trip", "set_temperature_settings"}
          => /\ jdoc'.ip = jdoc.ip
             /\ jdoc'.mode = jdoc.mode
             /\ jdoc'.cooling = jdoc.cooling
       /\ cause' = "save_mode"
          => /\ jdoc'.temps = jdoc.temps
             /\ jdoc'.ip = jdoc.ip
             /\ jdoc'.cooling = jdoc.cooling
       /\ cause' = "save_ip"
          => /\ jdoc'.temps = jdoc.temps
             /\ jdoc'.mode = jdoc.mode
             /\ jdoc'.cooling = jdoc.cooling
       /\ cause' = "save_cooling"
          => /\ jdoc'.temps = jdoc.temps
             /\ jdoc'.mode = jdoc.mode
             /\ jdoc'.ip = jdoc.ip]_vars

\* set_temperature_settings has saved setpoints into a document that holds
\* an address, the mode Manual and cooling "on"
C34_SetpointsSavedOverFullDocument ==
    /\ cause = "set_temperature_settings"
    /\ jdoc.source = "gui_interface"
    /\ jdoc.temps = <<4600, 4800>>
    /\ jdoc.ip = "192.168.0.92"
    /\ jdoc.mode = "manual"
    /\ jdoc.cooling = "on"


-----------------------------------------------------------------------------
(* C35: an iteration of the regulator that begins with both relays on ends *)
(* with both relays off and the regulator state Error; the loop goes on    *)
(* (the regulator is still running).                                       *)
C35_BothOnHandled ==
    [][(cause' = "tick" /\ upper.state /\ lower.state)
          => /\ ~upper'.state
             /\ ~lower'.state
             /\ regState' = "error"
             /\ regRunning']_vars

\* an iteration has switched the upper relay off by its temperature rule
\* while the lower relay, on for a second or more, stays on and the
\* regulator state stays Running
C35_LowerKeptOn ==
    /\ cause = "tick"
    /\ ~upper.state /\ upper.since = 0
    /\ lower.state /\ lower.since # 0
    /\ regState = "running"


-----------------------------------------------------------------------------
(* C36: a tick whose GPIO write fails leaves the relays' logical state,    *)
(* switch_count and last_switch_time as they were and the regulator        *)
(* running; a later tick whose write succeeds, on which the ON condition   *)
(* of the upper relay still holds and min_cycle_time allows the switch,    *)
(* switches the relay on and counts the switch (the OFF condition          *)
(* likewise).                                                              *)
C36_FailedWriteRetried ==
    [][/\ cause' = "tick_gpio"
          => /\ upper' = upper /\ lower' = lower
             /\ rc' = rc
             /\ regRunning' /\ regState' = regState
       /\ (cause' = "tick" /\ ~upper.state /\ provTemp # None
             /\ provTemp >= cfg'.max
             /\ CanSwitchNow(upper))
          => /\ upper'.state
             /\ rc'.count = rc.count + 1 /\ rc'.last = rcNow
       /\ (cause' = "tick" /\ upper.state /\ provTemp # None
             /\ provTemp < cfg'.max - WorkingHysteresis(cfg')
             /\ CanSwitchNow(upper))
          => /\ ~upper'.state
             /\ rc'.count = rc.count + 1 /\ rc'.last = rcNow]_vars

\* the upper relay is switched on for the first time by a tick that follows
\* an earlier tick at or above max_temp: the write of the earlier one failed
C36_SwitchedOnRetry ==
    /\ cause = "tick"
    /\ upper.state /\ upper.since = 0
    /\ rc.count = 1 /\ rc.last = rcNow
    /\ \E i \in 1..Len(history) :
          history[i].age >= 1 /\ history[i].T >= cfg.max
    /\ \A i \in 1..Len(history) : history[i].T >= cfg.max


-----------------------------------------------------------------------------
(* C37: whenever no call of set_manual_mode, set_auto_mode or              *)
(* set_manual_cooling is in progress, the manual-mode flag and the         *)
(* regulator agree: the flag is set exactly when the regulator is not      *)
(* running.                                                                *)
C37_FlagAgrees ==
    (\A t \in Setters : cPc[t] = "idle") => (isManual <=> ~regRunning)

\* all calls have returned, the flag says Manual and the regulator runs
C37_ManualFlagRegulatorRunning ==
    /\ \A t \in Setters : cPc[t] = "idle"
    /\ cOp[1] = "manual" /\ cOp[2] = "auto"
    /\ isManual
    /\ regRunning


-----------------------------------------------------------------------------
\* state, switch_count and last_switch_time of the relay record r agree
RelayCountersAgree(r) ==
    /\ r.state <=> (r.count % 2 = 1)
    /\ (r.last = None) <=> (r.count = 0)

(* C38: for a RelayController, in every reachable state the relay is on    *)
(* exactly when switch_count is odd and last_switch_time is unset exactly  *)
(* when switch_count is 0; and last_switch_time never decreases.           *)
C38_RelayCounters ==
    [][/\ RelayCountersAgree(rc)
       /\ RelayCountersAgree(rc')
       /\ rc.last # None => rc'.last >= rc.last]_vars

\* the relay has been switched on, off and on again, the last time later
\* than the first
C38_ThirdSwitch ==
    /\ rc.state
    /\ rc.count = 3
    /\ rc.last = rcNow /\ rcNow >= 2
    /\ rc.total >= 1


-----------------------------------------------------------------------------
(* C39: every iteration of the regulation loop - also one that got no      *)
(* temperature and one whose regulation step raised - is followed by the   *)
(* wait of control_interval: the next iteration is not due at once.        *)
C39_WaitAfterIteration ==
    [][cause' \in {"tick", "tick_gpio", "tick_error"} => ~tickDue']_vars

\* an iteration without a temperature has ended and the next one is due
\* without a wait
C39_NoWaitWithoutTemperature ==
    /\ cause = "tick"
    /\ provTemp = None
    /\ regRunning
    /\ tickDue


-----------------------------------------------------------------------------
(* C40: in Predictive mode, whenever a relay is on after a tick, its       *)
(* since-on tracker is set (the minimum since on for the upper relay, the  *)
(* maximum since on for the lower one) - also after a turn-off that was    *)
(* decided but blocked by min_cycle_time, and for a relay that was         *)
(* switched on while the algorithm was hysteresis.                         *)
C40_TrackerSetWhileOn ==
    (cause = "tick" /\ algorithm = "predictive" /\ provTemp # None)
        => /\ upper.state => highMin # None
           /\ lower.state => lowMax # None

\* a predictive tick has ended with the upper relay on, switched on less
\* than min_cycle_time ago, and no minimum tracked
C40_UpperOnUntracked ==
    /\ cause = "tick"
    /\ algorithm = "predictive"
    /\ provTemp # None
    /\ upper.state /\ upper.since = 0
    /\ highMin = None

=============================================================================
